---------------------------- MODULE Spec2Model ----------------------------
(***************************************************************************)
(* A model of the HubSpot / ActiveCampaign migration tools:                *)
(*   - the close-date updater (scripts/update-hubspot-close-dates.js in    *)
(*     its direct-API form) together with utils/flag-parser.js,            *)
(*   - the data-gap analyzer (scripts/data-gap-analyzer.js),               *)
(*   - the duplicate analyzer (scripts/hubspot-duplicate-analyzer.js) and  *)
(*     the duplicate report of utils/csv-reporter.js.                      *)
(*                                                                         *)
(* Strings whose content the code inspects (names, titles, e-mails, deal   *)
(* stages) are sequences of one-character strings, so that toLowerCase,    *)
(* trim and includes are computed.  A close date is a record: absent       *)
(* (null / undefined / ""), invalid (a non-empty string Date cannot        *)
(* parse) or a date with its time in milliseconds.  Times are counted from *)
(* 2025-07-14T00:00:00Z so that they fit TLC's integers; an ISO date       *)
(* (YYYY-MM-DD, UTC) is the number of whole days since then.               *)
(***************************************************************************)
EXTENDS Integers, Sequences, FiniteSets, TLC

VARIABLES
    \* ---- fetched snapshots (getAllDeals / getAllContacts results)
    hubspotDeals, acDeals, hubspotContacts, acContacts,
    \* ---- close-date updater
    argv, viaMain, pc, dryRun, migrationDeals, idx, store, current,
    updatedCount, skippedCount, errorCount, lookups, writes, counted, edits,
    \* ---- analyzers
    options, phase, gaps, duplicates, history, firstGaps, firstDuplicates,
    \* ---- duplicate analyzer: this.companies and the rows of the CSV report
    hubspotCompanies, csvData,
    \* ---- API clients: the cache directory, each client's cacheOptions,
    \*      Date.now() and the outcome of the latest client call
    cacheDir, hubspotCacheOptions, acCacheOptions, now, result

snapVars == <<hubspotDeals, acDeals, hubspotContacts, acContacts>>
updVars  == <<argv, viaMain, pc, dryRun, migrationDeals, idx, store, current,
              updatedCount, skippedCount, errorCount, lookups, writes, counted, edits>>
anaVars  == <<options, phase, gaps, duplicates, history, firstGaps, firstDuplicates>>
dupVars  == <<hubspotCompanies, csvData>>
cacheVars == <<cacheDir, hubspotCacheOptions, acCacheOptions, now, result>>
vars     == <<snapVars, updVars, anaVars, dupVars, cacheVars>>

-----------------------------------------------------------------------------
(* Bounds of the model. *)
MaxUpdDeals == 2
MaxEdits    == 1
MaxContacts == 2
MaxDeals    == 2
MaxRuns     == 2

-----------------------------------------------------------------------------
(* JavaScript strings *)

Undefined == <<"undefined">>

Truthy(s) == s # Undefined /\ s # <<>>

LowerChar(c) ==
    CASE c = "A" -> "a"
      [] c = "B" -> "b"
      [] c = "C" -> "c"
      [] c = "D" -> "d"
      [] c = "E" -> "e"
      [] c = "L" -> "l"
      [] c = "N" -> "n"
      [] c = "O" -> "o"
      [] c = "S" -> "s"
      [] c = "T" -> "t"
      [] c = "W" -> "w"
      [] c = "X" -> "x"
      [] OTHER   -> c

toLowerCase(s) == [i \in 1..Len(s) |-> LowerChar(s[i])]

RECURSIVE trimStart(_)
trimStart(s) == IF s # <<>> /\ Head(s) = " " THEN trimStart(Tail(s)) ELSE s

RECURSIVE trimEnd(_)
trimEnd(s) ==
    IF s # <<>> /\ s[Len(s)] = " " THEN trimEnd(SubSeq(s, 1, Len(s) - 1)) ELSE s

trim(s) == trimEnd(trimStart(s))

includes(s, sub) ==
    \E i \in 0..(Len(s) - Len(sub)) : SubSeq(s, i + 1, i + Len(sub)) = sub

-----------------------------------------------------------------------------
(* Dates *)

DayMs == 86400000

\* '2025-07-16' as whole days since 2025-07-14
MIGRATION_DATE == 2

NoDate  == [kind |-> "absent",  ms |-> 0]
BadDate == [kind |-> "invalid", ms |-> 0]
At(t)   == [kind |-> "date",    ms |-> t]

\* !value is false: a non-empty string, parseable or not
HasDate(d) == d.kind # "absent"

\* new Date(value) is a valid date
ValidDate(d) == d.kind = "date"

\* new Date(value).toISOString().split('T')[0], defined for valid dates
\* (toISOString throws RangeError on an invalid one)
ISODate(d) == d.ms \div DayMs

-----------------------------------------------------------------------------
(* Deal status helpers *)

WonStr        == <<"w","o","n">>
LostStr       == <<"l","o","s","t">>
ClosedWonStr  == <<"c","l","o","s","e","d","w","o","n">>
ClosedLostStr == <<"c","l","o","s","e","d","l","o","s","t">>

getHubSpotDealStatus(stage) ==
    IF ~Truthy(stage) THEN "unknown"
    ELSE LET lowerStage == toLowerCase(stage) IN
         IF includes(lowerStage, ClosedWonStr) \/ includes(lowerStage, WonStr) THEN "won"
         ELSE IF includes(lowerStage, ClosedLostStr) \/ includes(lowerStage, LostStr) THEN "lost"
         ELSE "open"

getACDealStatus(status) ==
    CASE status = "0" -> "open"
      [] status = "1" -> "won"
      [] status = "2" -> "lost"
      [] status = "3" -> "open"
      [] OTHER        -> "unknown"

IsWonLost(hsStatus, acStatus) ==
    hsStatus = "won" \/ hsStatus = "lost" \/ acStatus = "won" \/ acStatus = "lost"

-----------------------------------------------------------------------------
(* Records *)

NoAmount  == [has |-> FALSE, cents |-> 0]
Amount(c) == [has |-> TRUE,  cents |-> c]

QualifiedStr == <<"q","u","a","l","i","f","i","e","d">>

HsDeal(i, n, s, d, a) ==
    [id |-> i, dealname |-> n, dealstage |-> s, closedate |-> d, amount |-> a,
     dealtype |-> Undefined]

AcDeal(i, t, s, d, v) ==
    [id |-> i, title |-> t, status |-> s, edate |-> d, value |-> v]

\* deal.title?.toLowerCase().trim()
normTitle(s) == IF s = Undefined THEN Undefined ELSE trim(toLowerCase(s))

-----------------------------------------------------------------------------
(* utils/flag-parser.js.  --cache-ttl (which parses a number) is not among *)
(* the arguments the model passes.                                         *)

DefaultFlags ==
    [includeContacts |-> TRUE, includeCompanies |-> TRUE, includeDeals |-> TRUE,
     help |-> FALSE, flushCache |-> FALSE, cacheStats |-> FALSE,
     focusDeals |-> FALSE, cache |-> TRUE, cacheDir |-> "null"]

\* one iteration of the switch; yields the flags and the next index
FlagCase(args, i, flags) ==
    LET arg == args[i] IN
    CASE arg = "--contacts-only" ->
           <<[flags EXCEPT !.includeContacts = TRUE, !.includeCompanies = FALSE,
                           !.includeDeals = FALSE], i + 1>>
      [] arg = "--companies-only" ->
           <<[flags EXCEPT !.includeContacts = FALSE, !.includeCompanies = TRUE,
                           !.includeDeals = FALSE], i + 1>>
      [] arg = "--deals-only" ->
           <<[flags EXCEPT !.includeContacts = FALSE, !.includeCompanies = FALSE,
                           !.includeDeals = TRUE], i + 1>>
      [] arg = "--focus-deals"  -> <<[flags EXCEPT !.focusDeals = TRUE], i + 1>>
      [] arg = "--no-contacts"  -> <<[flags EXCEPT !.includeContacts = FALSE], i + 1>>
      [] arg = "--no-companies" -> <<[flags EXCEPT !.includeCompanies = FALSE], i + 1>>
      [] arg = "--no-deals"     -> <<[flags EXCEPT !.includeDeals = FALSE], i + 1>>
      [] arg = "--flush-cache"  -> <<[flags EXCEPT !.flushCache = TRUE], i + 1>>
      [] arg = "--cache-stats"  -> <<[flags EXCEPT !.cacheStats = TRUE], i + 1>>
      [] arg = "--no-cache"     -> <<[flags EXCEPT !.cache = FALSE], i + 1>>
      [] arg = "--cache-dir"    ->
           IF i + 1 <= Len(args)
           THEN <<[flags EXCEPT !.cacheDir = args[i + 1]], i + 2>>
           ELSE <<flags, i + 1>>
      [] arg = "--help" \/ arg = "-h" -> <<[flags EXCEPT !.help = TRUE], i + 1>>
      [] OTHER -> <<flags, i + 1>>   \* default: a warning is logged, nothing is set

RECURSIVE parseFrom(_, _, _)
parseFrom(args, i, flags) ==
    IF i > Len(args) THEN flags
    ELSE LET r == FlagCase(args, i, flags) IN parseFrom(args, r[2], r[1])

parse(args) == parseFrom(args, 1, DefaultFlags)

\* flags.dryRun || false
FlagDryRun(flags) == IF "dryRun" \in DOMAIN flags THEN flags.dryRun ELSE FALSE

-----------------------------------------------------------------------------
(* The close-date updater *)

\* acDealsByTitle.get(title) finding nothing
NoAcDeal == AcDeal(0, Undefined, "", NoDate, NoAmount)

\* acDealsByTitle.get(title): Map.set keeps the last deal stored under a title
RECURSIVE acDealsByTitleGet(_, _)
acDealsByTitleGet(ac, title) ==
    IF ac = <<>> THEN NoAcDeal
    ELSE LET deal == ac[Len(ac)] IN
         IF Truthy(normTitle(deal.title)) /\ normTitle(deal.title) = title
         THEN deal
         ELSE acDealsByTitleGet(SubSeq(ac, 1, Len(ac) - 1), title)

\* the test of one HubSpot deal in the loop of identifyMigrationDeals
IsMigrationCandidate(hsDeal, ac) ==
    /\ HasDate(hsDeal.closedate)
    /\ ISODate(hsDeal.closedate) = MIGRATION_DATE
    /\ Truthy(normTitle(hsDeal.dealname))
    /\ LET matchingAcDeal == acDealsByTitleGet(ac, normTitle(hsDeal.dealname)) IN
       /\ matchingAcDeal # NoAcDeal
       /\ HasDate(matchingAcDeal.edate)
       /\ IsWonLost(getHubSpotDealStatus(hsDeal.dealstage),
                    getACDealStatus(matchingAcDeal.status))

MigrationEntry(hsDeal, ac) ==
    LET matchingAcDeal == acDealsByTitleGet(ac, normTitle(hsDeal.dealname)) IN
    [hubspotId |-> hsDeal.id, dealName |-> hsDeal.dealname,
     currentCloseDate |-> hsDeal.closedate, newCloseDate |-> matchingAcDeal.edate,
     activeCampaignId |-> matchingAcDeal.id,
     hubspotStatus |-> getHubSpotDealStatus(hsDeal.dealstage),
     activeCampaignStatus |-> getACDealStatus(matchingAcDeal.status)]

RECURSIVE identifyMigrationDeals(_, _)
identifyMigrationDeals(hs, ac) ==
    IF hs = <<>> THEN <<>>
    ELSE LET rest == identifyMigrationDeals(SubSeq(hs, 1, Len(hs) - 1), ac)
             hsDeal == hs[Len(hs)] IN
         IF IsMigrationCandidate(hsDeal, ac)
         THEN Append(rest, MigrationEntry(hsDeal, ac)) ELSE rest

\* toISOString throws on a close date that is present but not parseable
identifyThrows(hs) ==
    \E i \in 1..Len(hs) : HasDate(hs[i].closedate) /\ ~ValidDate(hs[i].closedate)

\* getDeal's result: null (request failed) or the deal as it is in HubSpot now
NullDeal        == [ok |-> FALSE, closedate |-> NoDate]
CurrentDeal(d)  == [ok |-> TRUE,  closedate |-> d]

\* processDeal without its re-verification of the close date
ProcessDealDecision_NoReverify(dry, currentDeal) ==
    IF ~currentDeal.ok THEN "error"
    ELSE IF dry THEN "updated"
    ELSE "write"

\* processDeal testing dryRun before it looks at the deal it fetched
ProcessDealDecision_DryFirst(dry, currentDeal) ==
    IF ~currentDeal.ok THEN "error"
    ELSE IF dry THEN "updated"
    ELSE LET currentCloseDate == currentDeal.closedate IN
         IF HasDate(currentCloseDate) /\ ~ValidDate(currentCloseDate)
         THEN "error"
         ELSE IF ~(HasDate(currentCloseDate)
                   /\ ISODate(currentCloseDate) = MIGRATION_DATE)
         THEN "skipped"
         ELSE "write"

\* What processDeal does with getDeal's result, up to the write:
\*   "error" | "skipped" | "updated" (dry run) | "write" (updateDeal is called)
ProcessDealDecision(dry, currentDeal) ==
    IF ~currentDeal.ok THEN "error"
    ELSE LET currentCloseDate == currentDeal.closedate IN
         IF HasDate(currentCloseDate) /\ ~ValidDate(currentCloseDate)
         THEN "error"                            \* RangeError, caught
         ELSE IF ~(HasDate(currentCloseDate)
                   /\ ISODate(currentCloseDate) = MIGRATION_DATE)
         THEN "skipped"
         ELSE IF dry THEN "updated"
         ELSE "write"

\* new Date(deal.newCloseDate).getTime() as the PATCH body carries it:
\* NaN is serialized as null
newCloseDateValue(edate) == IF ValidDate(edate) THEN edate ELSE NoDate

-----------------------------------------------------------------------------
(* Analyzer state after construction *)

EmptyGaps ==
    [contacts |-> [missingInHubSpot |-> <<>>, missingInActiveCampaign |-> <<>>,
                   fieldMismatches |-> <<>>, emptyFields |-> <<>>],
     deals    |-> [emptyFields |-> <<>>,
                   missingInHubSpot |-> <<>>, missingInActiveCampaign |-> <<>>,
                   statusMismatches |-> <<>>, dateMismatches |-> <<>>,
                   valueMismatches |-> <<>>, migrationIssues |-> <<>>]]

EmptyDuplicates ==
    [contacts  |-> [byEmail |-> <<>>, byPhone |-> <<>>, byName |-> <<>>,
                    byCompany |-> <<>>],
     companies |-> [byName |-> <<>>, byDomain |-> <<>>],
     deals     |-> [byName |-> <<>>, byCompanyAndName |-> <<>>]]

\* this.options as analyzeData reads it
Options(contacts, deals, focus, migrationOnly) ==
    [includeContacts |-> contacts, includeDeals |-> deals,
     focusDeals |-> focus, migrationDealsOnly |-> migrationOnly]

-----------------------------------------------------------------------------
(* utils/hubspot-api.js: the file cache of the two API clients.  Both      *)
(* clients keep their files in the same directory (options.cacheDir, or    *)
(* ../cache by default).  A file name is <<prefix, stem, extension>>; the  *)
(* directory is a function from the names of the existing files to their   *)
(* contents.  Times are Date.now() values in milliseconds.                 *)

ObjectTypes == {"contacts", "companies", "deals"}

\* objectType = null
NoObjectType == "null"

DefaultTtlMinutes == 60

MaxTicks == 2

TickMs == (DefaultTtlMinutes * 60 * 1000) \div 2

StartMs == TickMs

CacheOptions(enabled, flushCache) ==
    [enabled |-> enabled, ttlMinutes |-> DefaultTtlMinutes, flushCache |-> flushCache]

FileName(prefix, stem) == <<prefix, stem, ".json">>

getCacheFilePath(api, objectType) ==
    IF api = "hubspot" THEN FileName("hubspot-", objectType)
    ELSE FileName("activecampaign-", objectType)

getCacheMetadataPath(api) ==
    IF api = "hubspot" THEN FileName("", "cache-metadata")
    ELSE FileName("activecampaign-", "cache-metadata")

EmptyDir == [f \in {} |-> <<>>]

existsSync(dir, file) == file \in DOMAIN dir

unlinkSync(dir, file) == [f \in DOMAIN dir \ {file} |-> dir[f]]

writeFileSync(dir, file, content) ==
    [f \in DOMAIN dir \cup {file} |-> IF f = file THEN content ELSE dir[f]]

DataFile(data) == [kind |-> "data", data |-> data, entries |-> <<>>]

MetadataFile(entries) == [kind |-> "metadata", data |-> <<>>, entries |-> entries]

EmptyMetadata == [t \in {} |-> [timestamp |-> 0, count |-> 0, ttlMinutes |-> 0]]

\* delete metadata[objectType]
deleteKey(entries, objectType) ==
    [t \in DOMAIN entries \ {objectType} |-> entries[t]]

\* metadata[objectType] = {...}
setKey(entries, objectType, entry) ==
    [t \in DOMAIN entries \cup {objectType} |->
        IF t = objectType THEN entry ELSE entries[t]]

isCacheValid(api, opts, dir, time, objectType) ==
    IF ~opts.enabled \/ opts.flushCache THEN FALSE
    ELSE IF ~existsSync(dir, getCacheFilePath(api, objectType))
            \/ ~existsSync(dir, getCacheMetadataPath(api)) THEN FALSE
    ELSE LET metadata == dir[getCacheMetadataPath(api)].entries IN
         IF objectType \notin DOMAIN metadata THEN FALSE
         ELSE IF metadata[objectType].timestamp = 0 THEN FALSE
         ELSE time - metadata[objectType].timestamp < opts.ttlMinutes * 60 * 1000

saveToCache(api, opts, dir, time, objectType, data) ==
    IF ~opts.enabled THEN dir
    ELSE LET written  == writeFileSync(dir, getCacheFilePath(api, objectType), DataFile(data))
             metaFile == getCacheMetadataPath(api)
             metadata == IF existsSync(written, metaFile) THEN written[metaFile].entries
                         ELSE EmptyMetadata
             entry    == [timestamp |-> time, count |-> Len(data),
                          ttlMinutes |-> opts.ttlMinutes]
         IN writeFileSync(written, metaFile,
                          MetadataFile(setKey(metadata, objectType, entry)))

\* clearCache(objectType) with an object type: the same code in both clients
clearCacheOfType(api, dir, objectType) ==
    LET cacheFile == getCacheFilePath(api, objectType)
        unlinked  == IF existsSync(dir, cacheFile) THEN unlinkSync(dir, cacheFile) ELSE dir
        metaFile  == getCacheMetadataPath(api)
    IN IF existsSync(unlinked, metaFile)
       THEN writeFileSync(unlinked, metaFile,
                MetadataFile(deleteKey(unlinked[metaFile].entries, objectType)))
       ELSE unlinked

\* HubSpotAPI.clearCache(): every file of the directory is unlinked
clearAllHubSpot(dir) ==
    LET kept == {f \in DOMAIN dir : FALSE} IN [f \in kept |-> dir[f]]

\* ActiveCampaignAPI.clearCache(): the files whose name starts with
\* 'activecampaign-' are unlinked, then the metadata file if it still exists
clearAllActiveCampaign(dir) ==
    LET kept     == {f \in DOMAIN dir : f[1] # "activecampaign-"}
        unlinked == [f \in kept |-> dir[f]]
        metaFile == getCacheMetadataPath("activecampaign")
    IN IF existsSync(unlinked, metaFile) THEN unlinkSync(unlinked, metaFile) ELSE unlinked

clearCache(api, opts, dir, objectType) ==
    IF ~opts.enabled THEN dir
    ELSE IF objectType # NoObjectType THEN clearCacheOfType(api, dir, objectType)
    ELSE IF api = "hubspot" THEN clearAllHubSpot(dir)
    ELSE clearAllActiveCampaign(dir)

(* HubSpotAPI.getAllCompanies / getAllDeals: the page loop.  responses     *)
(* are the answers to the successive page requests: a                      *)
(* page of results with or without a paging.next.after cursor, or an error *)
(* with the HTTP status of error.response (0: no response at all).         *)
Page(results, after) == [ok |-> TRUE, results |-> results, after |-> after, status |-> 200]

HttpError(status) == [ok |-> FALSE, results |-> <<>>, after |-> FALSE, status |-> status]

Fetched(value)  == [outcome |-> "fetched", value |-> value, status |-> 0]

TierEmpty(status) == [outcome |-> "empty", value |-> <<>>, status |-> status]

Rethrown(status) == [outcome |-> "threw", value |-> <<>>, status |-> status]

tierLimited_403Only(status) == status = 403

\* error.response?.status === 403 || error.response?.status === 402
tierLimited(status) == status = 403 \/ status = 402

RECURSIVE fetchPages(_, _)
fetchPages(responses, all) ==
    LET response == Head(responses) IN
    IF response.ok
    THEN IF response.after
         THEN fetchPages(Tail(responses), all \o response.results)
         ELSE Fetched(all \o response.results)
    ELSE IF tierLimited(response.status) THEN TierEmpty(response.status)
    ELSE Rethrown(response.status)

\* result: the latest client call, what it returned or whether it threw, and
\* the answers to the page requests it made
NoCall ==
    [op |-> "none", api |-> "none", objectType |-> NoObjectType, threw |-> FALSE,
     value |-> <<>>, responses |-> <<>>, fromCache |-> FALSE]

Call(op, api, objectType) ==
    [op |-> op, api |-> api, objectType |-> objectType, threw |-> FALSE,
     value |-> <<>>, responses |-> <<>>, fromCache |-> FALSE]

\* no client call made: empty cache directory, caching on for both clients
CacheIdle ==
    /\ cacheDir = EmptyDir
    /\ hubspotCacheOptions = CacheOptions(TRUE, FALSE)
    /\ acCacheOptions = CacheOptions(TRUE, FALSE)
    /\ now = StartMs
    /\ result = NoCall

\* no companies fetched, no report written
DupIdle ==
    /\ hubspotCompanies = <<>>
    /\ csvData = <<>>

AnaIdle ==
    /\ options = Options(TRUE, TRUE, FALSE, FALSE)
    /\ phase = "idle"
    /\ gaps = EmptyGaps
    /\ duplicates = EmptyDuplicates
    /\ history = <<>>
    /\ firstGaps = EmptyGaps
    /\ firstDuplicates = EmptyDuplicates

-----------------------------------------------------------------------------
(* Specification of the updater: SpecUpd *)

PlaceholderMs == MIGRATION_DATE * DayMs

UpdNames  == { <<"A">>, <<"B">> }
UpdStages == { ClosedWonStr, QualifiedStr }
UpdDates  == { At(PlaceholderMs), At(0), BadDate }
EditDates == { NoDate, BadDate, At(DayMs), At(PlaceholderMs + 1) }

ArgvChoices == { <<>>, <<"--dry-run">>, <<"--flush-cache", "--dry-run">> }

UpdHsDeals(n) ==
    { [i \in 1..n |-> HsDeal(i, f[i][1], f[i][2], f[i][3], NoAmount)] :
        f \in [1..n -> UpdNames \X UpdStages \X UpdDates] }

UpdAcDeals ==
    { << AcDeal(1, <<"a", " ">>, s, d, NoAmount) >> :
        s \in {"0", "1"}, d \in {NoDate, At(DayMs)} }

UpdIdle ==
    /\ argv = <<>>
    /\ viaMain = FALSE
    /\ pc = "start"
    /\ dryRun = FALSE
    /\ migrationDeals = <<>>
    /\ idx = 1
    /\ current = NullDeal
    /\ updatedCount = 0
    /\ skippedCount = 0
    /\ errorCount = 0
    /\ lookups = <<>>
    /\ writes = <<>>
    /\ counted = {}
    /\ edits = 0

InitUpd ==
    /\ \E n \in 1..MaxUpdDeals : hubspotDeals \in UpdHsDeals(n)
    /\ acDeals \in UpdAcDeals
    /\ hubspotContacts = <<>>
    /\ acContacts = <<>>
    /\ store = [i \in 1..Len(hubspotDeals) |-> hubspotDeals[i].closedate]
    /\ UpdIdle
    /\ DupIdle
    /\ CacheIdle
    /\ AnaIdle

\* updateCloseDates(dryRun) up to the loop: identifyMigrationDeals on the
\* fetched snapshots; an exception ends the script, no candidate ends the run
UpdateCloseDates(dry) ==
    /\ dryRun' = dry
    /\ IF identifyThrows(hubspotDeals)
       THEN /\ pc' = "failed"
            /\ migrationDeals' = <<>>
       ELSE /\ migrationDeals' = identifyMigrationDeals(hubspotDeals, acDeals)
            /\ pc' = IF migrationDeals' = <<>> THEN "done" ELSE "process"
    /\ UNCHANGED <<idx, store, current, updatedCount, skippedCount, errorCount,
                   lookups, writes, counted, edits>>

\* main(): node scripts/update-hubspot-close-dates.js <args>
Main ==
    /\ pc = "start"
    /\ \E args \in ArgvChoices :
         /\ argv' = args
         /\ viaMain' = TRUE
         /\ UpdateCloseDates(FlagDryRun(parse(args)))
    /\ UNCHANGED <<snapVars, anaVars, dupVars, cacheVars>>

\* the exported class used directly: new HubSpotCloseDateUpdater().updateCloseDates(d)
CallUpdateCloseDates ==
    /\ pc = "start"
    /\ \E d \in BOOLEAN : UpdateCloseDates(d)
    /\ UNCHANGED <<argv, viaMain, snapVars, anaVars, dupVars, cacheVars>>

\* the loop moves on to the next candidate, or prints the summary
NextCandidate == IF idx + 1 > Len(migrationDeals) THEN "done" ELSE "process"

\* processDeal, from its start to the first point it waits after getDeal:
\* getDeal answers with the deal as stored now, or fails (null)
ProcessDeal_getDeal ==
    /\ pc = "process"
    /\ LET deal == migrationDeals[idx] IN
       \E currentDeal \in {NullDeal, CurrentDeal(store[deal.hubspotId])} :
         LET decision == ProcessDealDecision(dryRun, currentDeal) IN
         /\ lookups' = Append(lookups, [call |-> idx, id |-> deal.hubspotId,
                                        deal |-> currentDeal])
         /\ current' = currentDeal
         /\ errorCount'   = IF decision = "error"   THEN errorCount + 1   ELSE errorCount
         /\ skippedCount' = IF decision = "skipped" THEN skippedCount + 1 ELSE skippedCount
         /\ updatedCount' = IF decision = "updated" THEN updatedCount + 1 ELSE updatedCount
         /\ counted' = IF decision = "updated" THEN counted \cup {deal.hubspotId} ELSE counted
         /\ IF decision = "write"
            THEN pc' = "write" /\ idx' = idx
            ELSE pc' = NextCandidate /\ idx' = idx + 1
    /\ UNCHANGED <<argv, viaMain, dryRun, migrationDeals, store, writes, edits>>
    /\ UNCHANGED <<snapVars, anaVars, dupVars, cacheVars>>

\* processDeal leaving a failed updateDeal uncounted
ProcessDeal_updateDeal_FailureUncounted ==
    /\ pc = "write"
    /\ LET deal == migrationDeals[idx]
           newCloseDate == newCloseDateValue(deal.newCloseDate) IN
       \E updateResult \in BOOLEAN :
         /\ writes' = Append(writes, [call |-> idx, id |-> deal.hubspotId,
                                      closedate |-> newCloseDate,
                                      before |-> store[deal.hubspotId],
                                      applied |-> updateResult])
         /\ store' = IF updateResult
                     THEN [store EXCEPT ![deal.hubspotId] = newCloseDate] ELSE store
         /\ updatedCount' = IF updateResult THEN updatedCount + 1 ELSE updatedCount
         /\ counted' = IF updateResult THEN counted \cup {deal.hubspotId} ELSE counted
    /\ pc' = NextCandidate
    /\ idx' = idx + 1
    /\ UNCHANGED <<argv, viaMain, dryRun, migrationDeals, current, skippedCount,
                   errorCount, lookups, edits>>
    /\ UNCHANGED <<snapVars, anaVars, dupVars, cacheVars>>

\* processDeal after its re-verification: updateDeal is called; the PATCH is
\* applied and answered, or fails (null)
ProcessDeal_updateDeal ==
    /\ pc = "write"
    /\ LET deal == migrationDeals[idx]
           newCloseDate == newCloseDateValue(deal.newCloseDate) IN
       \E updateResult \in BOOLEAN :
         /\ writes' = Append(writes, [call |-> idx, id |-> deal.hubspotId,
                                      closedate |-> newCloseDate,
                                      before |-> store[deal.hubspotId],
                                      applied |-> updateResult])
         /\ store' = IF updateResult
                     THEN [store EXCEPT ![deal.hubspotId] = newCloseDate] ELSE store
         /\ updatedCount' = IF updateResult THEN updatedCount + 1 ELSE updatedCount
         /\ errorCount'   = IF updateResult THEN errorCount ELSE errorCount + 1
         /\ counted' = IF updateResult THEN counted \cup {deal.hubspotId} ELSE counted
    /\ pc' = NextCandidate
    /\ idx' = idx + 1
    /\ UNCHANGED <<argv, viaMain, dryRun, migrationDeals, current, skippedCount,
                   lookups, edits>>
    /\ UNCHANGED <<snapVars, anaVars, dupVars, cacheVars>>

\* someone else edits a deal's close date in HubSpot while the updater runs
ExternalEdit ==
    /\ pc \in {"process", "write"}
    /\ edits < MaxEdits
    /\ \E id \in DOMAIN store, d \in EditDates :
         /\ store[id] # d
         /\ store' = [store EXCEPT ![id] = d]
    /\ edits' = edits + 1
    /\ UNCHANGED <<argv, viaMain, pc, dryRun, migrationDeals, idx, current,
                   updatedCount, skippedCount, errorCount, lookups, writes, counted>>
    /\ UNCHANGED <<snapVars, anaVars, dupVars, cacheVars>>

NextUpd ==
    \/ Main
    \/ CallUpdateCloseDates
    \/ ProcessDeal_getDeal
    \/ ProcessDeal_updateDeal
    \/ ExternalEdit

SpecUpd == InitUpd /\ [][NextUpd]_vars

-----------------------------------------------------------------------------
(* Claims about the updater *)

\* a close date that falls on the placeholder day 2025-07-16 (UTC)
OnPlaceholderDay(d) ==
    d.kind = "date" /\ PlaceholderMs <= d.ms /\ d.ms < PlaceholderMs + DayMs

\* C1: a run of the script started with --dry-run on its command line never
\* calls updateDeal.
C1_DryRunFlagIssuesNoWrite ==
    (viaMain /\ \E i \in 1..Len(argv) : argv[i] = "--dry-run") => writes = <<>>

\* C2: updateDeal is called for a deal only if the getDeal read of the same
\* processDeal call succeeded and showed a close date on the placeholder day;
\* a failed read or any other date is followed by no write in that call.
C2_WriteOnlyAfterPlaceholderRead ==
    /\ \A w \in 1..Len(writes) :
         \E j \in 1..Len(lookups) :
           /\ lookups[j].call = writes[w].call
           /\ lookups[j].id = writes[w].id
           /\ lookups[j].deal.ok
           /\ OnPlaceholderDay(lookups[j].deal.closedate)
    /\ \A j \in 1..Len(lookups) :
         (~lookups[j].deal.ok \/ ~OnPlaceholderDay(lookups[j].deal.closedate))
           => /\ \A w \in 1..Len(writes) : writes[w].call # lookups[j].call
              /\ ~(pc = "write" /\ idx = lookups[j].call)

\* C2 witness: one candidate was written after a placeholder read while
\* another read failed or showed a changed date and was not written.
C2_Witness ==
    /\ Len(writes) >= 1
    /\ \E j \in 1..Len(lookups) :
         lookups[j].deal.ok /\ ~OnPlaceholderDay(lookups[j].deal.closedate)
    /\ pc = "done"

\* C10: a dry run never calls updateDeal, looks every candidate up with
\* getDeal, and counts as updated exactly the deals a non-dry run would
\* call updateDeal for on the same getDeal answers.
C10_DryRunSameDecisions ==
    dryRun =>
      /\ writes = <<>>
      /\ pc # "write"
      /\ pc = "done" =>
           /\ [j \in 1..Len(lookups) |-> lookups[j].id]
                = [j \in 1..Len(migrationDeals) |-> migrationDeals[j].hubspotId]
           /\ counted = { lookups[j].id :
                            j \in { k \in 1..Len(lookups) :
                                      ProcessDealDecision(FALSE, lookups[k].deal) = "write" } }
           /\ updatedCount = Cardinality(counted)

\* C10 witness: a finished dry run that counted one deal as updated and
\* skipped another whose close date had been changed.
C10_Witness ==
    /\ dryRun
    /\ pc = "done"
    /\ counted # {}
    /\ \E j \in 1..Len(lookups) : lookups[j].id \notin counted /\ lookups[j].deal.ok

-----------------------------------------------------------------------------
(* The data-gap analyzer: deals *)

\* MIGRATION_DATE of analyzeCloseDateMismatch and filterMigrationDeals:
\* '2025-07-16' as whole days since 2025-07-14
MIGRATION_DATE_analyzer == 2

\* the keys of a Map filled in one pass over a collection, in insertion order
RECURSIVE MapKeys(_)
MapKeys(ks) ==
    IF ks = <<>> THEN <<>>
    ELSE LET rest == MapKeys(SubSeq(ks, 1, Len(ks) - 1))
             k    == ks[Len(ks)] IN
         IF Truthy(k) /\ ~(\E i \in 1..Len(rest) : rest[i] = k)
         THEN Append(rest, k) ELSE rest

hsName(deal)  == normTitle(deal.dealname)
acTitle(deal) == normTitle(deal.title)

hubspotDealsByNameKeys(hs) == MapKeys([i \in 1..Len(hs) |-> hsName(hs[i])])
acDealsByTitleKeys(ac)     == MapKeys([i \in 1..Len(ac) |-> acTitle(ac[i])])

hubspotDealsByName(hs, name) == SelectSeq(hs, LAMBDA d : hsName(d) = name)
acDealsByTitle(ac, title)    == SelectSeq(ac, LAMBDA d : acTitle(d) = title)

HasKey(keys, k) == \E i \in 1..Len(keys) : keys[i] = k

MissingInHubSpotEntry(deal) ==
    [id |-> deal.id, title |-> deal.title, value |-> deal.value,
     status |-> getACDealStatus(deal.status), closeDate |-> deal.edate]

MissingInActiveCampaignEntry(deal) ==
    [id |-> deal.id, name |-> deal.dealname, amount |-> deal.amount,
     stage |-> deal.dealstage, closeDate |-> deal.closedate]

\* the first loop of findMissingDeals without the lookup in the HubSpot map
RECURSIVE MissingInHubSpot_NoLookup(_, _, _)
MissingInHubSpot_NoLookup(acKeys, hsKeys, ac) ==
    IF acKeys = <<>> THEN <<>>
    ELSE LET deals == acDealsByTitle(ac, Head(acKeys)) IN
         [i \in 1..Len(deals) |-> MissingInHubSpotEntry(deals[i])]
           \o MissingInHubSpot_NoLookup(Tail(acKeys), hsKeys, ac)

\* the first loop of findMissingDeals: titles of ActiveCampaign without a
\* HubSpot deal of that name
RECURSIVE MissingInHubSpot(_, _, _)
MissingInHubSpot(acKeys, hsKeys, ac) ==
    IF acKeys = <<>> THEN <<>>
    ELSE LET deals == acDealsByTitle(ac, Head(acKeys))
             here  == IF HasKey(hsKeys, Head(acKeys)) THEN <<>>
                      ELSE [i \in 1..Len(deals) |-> MissingInHubSpotEntry(deals[i])] IN
         here \o MissingInHubSpot(Tail(acKeys), hsKeys, ac)

\* the second loop: names of HubSpot without an ActiveCampaign deal
RECURSIVE MissingInActiveCampaign(_, _, _)
MissingInActiveCampaign(hsKeys, acKeys, hs) ==
    IF hsKeys = <<>> THEN <<>>
    ELSE LET deals == hubspotDealsByName(hs, Head(hsKeys))
             here  == IF HasKey(acKeys, Head(hsKeys)) THEN <<>>
                      ELSE [i \in 1..Len(deals) |-> MissingInActiveCampaignEntry(deals[i])] IN
         here \o MissingInActiveCampaign(Tail(hsKeys), acKeys, hs)

findMissingDeals(hs, ac, g) ==
    LET hsKeys == hubspotDealsByNameKeys(hs)
        acKeys == acDealsByTitleKeys(ac) IN
    [g EXCEPT !.deals.missingInHubSpot = @ \o MissingInHubSpot(acKeys, hsKeys, ac),
              !.deals.missingInActiveCampaign =
                  @ \o MissingInActiveCampaign(hsKeys, acKeys, hs)]

\* Math.round(ms / 86400000): halves go up
RoundDays(ms) == (2 * ms + DayMs) \div (2 * DayMs)

Abs(x) == IF x < 0 THEN -x ELSE x

moreThanADayApart_Inclusive(hsDate, acDate) == Abs(hsDate.ms - acDate.ms) >= DayMs

\* Math.abs(hsDate.getTime() - acDate.getTime()) > 86400000, both dates valid
moreThanADayApart(hsDate, acDate) == Abs(hsDate.ms - acDate.ms) > DayMs

DateEntry(hsDeal, acDeal, hsDate, acDate, correct, days, type, prio, mig, from) ==
    [hubspotId |-> hsDeal.id, activeCampaignId |-> acDeal.id,
     dealName |-> hsDeal.dealname,
     hubspotCloseDate |-> hsDate, activeCampaignCloseDate |-> acDate,
     correctCloseDate |-> correct, daysDifference |-> days,
     issueType |-> type, priority |-> prio, isMigrationDate |-> mig,
     reportedBy |-> from]

\* new Date(hsCloseDate).toISOString() throws RangeError
closeDateThrows(hsCloseDate) == HasDate(hsCloseDate) /\ ~ValidDate(hsCloseDate)

closeDateOnlyInHubSpot_PlaceholderIncluded(hsCloseDate, acCloseDate, isMigrationDate) ==
    HasDate(hsCloseDate) /\ ~HasDate(acCloseDate)

\* hsCloseDate && !acCloseDate && !isMigrationDate
closeDateOnlyInHubSpot(hsCloseDate, acCloseDate, isMigrationDate) ==
    HasDate(hsCloseDate) /\ ~HasDate(acCloseDate) /\ ~isMigrationDate

\* analyzeCloseDateMismatch with the generic comparison placed before the
\* placeholder case
analyzeCloseDateMismatch_GenericFirst(hsDeal, acDeal) ==
    LET hsCloseDate == hsDeal.closedate
        acCloseDate == acDeal.edate
        hsStatus == getHubSpotDealStatus(hsDeal.dealstage)
        acStatus == getACDealStatus(acDeal.status)
        isMigrationDate ==
            HasDate(hsCloseDate) /\ ISODate(hsCloseDate) = MIGRATION_DATE_analyzer
        E(hsDate, acDate, correct, days, type, prio, mig) ==
            << DateEntry(hsDeal, acDeal, hsDate, acDate, correct, days, type, prio,
                         mig, "analyzeCloseDateMismatch") >>
    IN
    IF ~IsWonLost(hsStatus, acStatus) THEN <<>>
    ELSE IF HasDate(acCloseDate) /\ ~HasDate(hsCloseDate)
    THEN E(NoDate, acCloseDate, acCloseDate, 0,
           "missing_close_date_in_hubspot", "HIGH", FALSE)
    ELSE IF HasDate(hsCloseDate) /\ ValidDate(acCloseDate)
            /\ moreThanADayApart(hsCloseDate, acCloseDate)
    THEN E(hsCloseDate, acCloseDate, acCloseDate,
           RoundDays(hsCloseDate.ms - acCloseDate.ms),
           "close_date_mismatch", "HIGH", FALSE)
    ELSE IF isMigrationDate /\ HasDate(acCloseDate)
    THEN E(hsCloseDate, acCloseDate, acCloseDate, 0,
           "migration_date_needs_update", "HIGH", TRUE)
    ELSE IF HasDate(hsCloseDate) /\ ~HasDate(acCloseDate) /\ ~isMigrationDate
    THEN E(hsCloseDate, NoDate, hsCloseDate, 0,
           "missing_close_date_in_ac", "MEDIUM", FALSE)
    ELSE IF ~HasDate(hsCloseDate) /\ ~HasDate(acCloseDate)
    THEN E(NoDate, NoDate, NoDate, 0, "both_missing_close_date", "HIGH", FALSE)
    ELSE <<>>

\* the entries analyzeCloseDateMismatch pushes for one pair (none or one),
\* for a pair on which it does not throw
analyzeCloseDateMismatch(hsDeal, acDeal) ==
    LET hsCloseDate == hsDeal.closedate
        acCloseDate == acDeal.edate
        hsStatus == getHubSpotDealStatus(hsDeal.dealstage)
        acStatus == getACDealStatus(acDeal.status)
        isMigrationDate ==
            HasDate(hsCloseDate) /\ ISODate(hsCloseDate) = MIGRATION_DATE_analyzer
        E(hsDate, acDate, correct, days, type, prio, mig) ==
            << DateEntry(hsDeal, acDeal, hsDate, acDate, correct, days, type, prio,
                         mig, "analyzeCloseDateMismatch") >>
    IN
    IF ~IsWonLost(hsStatus, acStatus) THEN <<>>
    ELSE IF HasDate(acCloseDate) /\ ~HasDate(hsCloseDate)
    THEN E(NoDate, acCloseDate, acCloseDate, 0,
           "missing_close_date_in_hubspot", "HIGH", FALSE)
    ELSE IF isMigrationDate /\ HasDate(acCloseDate)
    THEN E(hsCloseDate, acCloseDate, acCloseDate, 0,
           "migration_date_needs_update", "HIGH", TRUE)
    ELSE IF HasDate(hsCloseDate) /\ HasDate(acCloseDate) /\ ~isMigrationDate
    THEN \* getTime() of an invalid date is NaN, and no comparison with NaN holds
         IF ValidDate(acCloseDate) /\ moreThanADayApart(hsCloseDate, acCloseDate)
         THEN E(hsCloseDate, acCloseDate, acCloseDate,
                RoundDays(hsCloseDate.ms - acCloseDate.ms),
                "close_date_mismatch", "HIGH", FALSE)
         ELSE <<>>
    ELSE IF closeDateOnlyInHubSpot(hsCloseDate, acCloseDate, isMigrationDate)
    THEN E(hsCloseDate, NoDate, hsCloseDate, 0,
           "missing_close_date_in_ac", "MEDIUM", FALSE)
    ELSE IF ~HasDate(hsCloseDate) /\ ~HasDate(acCloseDate)
            /\ IsWonLost(hsStatus, acStatus)
    THEN E(NoDate, NoDate, NoDate, 0, "both_missing_close_date", "HIGH", FALSE)
    ELSE <<>>

\* parseFloat(amount || '0') in cents
parseAmount(a) == IF a.has THEN a.cents ELSE 0

statusMismatch(hsDeal, acDeal) ==
    getHubSpotDealStatus(hsDeal.dealstage) # getACDealStatus(acDeal.status)

StatusEntry(hsDeal, acDeal) ==
    [hubspotId |-> hsDeal.id, activeCampaignId |-> acDeal.id,
     dealName |-> hsDeal.dealname,
     hubspotStatus |-> getHubSpotDealStatus(hsDeal.dealstage),
     activeCampaignStatus |-> getACDealStatus(acDeal.status),
     hubspotStage |-> hsDeal.dealstage]

\* parseFloat yields the IEEE-754 double nearest to the decimal amount, and
\* parseFloat(value) / 100 the double nearest to cents / 100.  doubleErr is
\* that double minus the exact amount, in units of 1 / (100 * 2^59), for the
\* amounts that occur here.
doubleErr(cents) ==
    CASE cents = 0    -> 0
      [] cents = 100  -> 0
      [] cents = 101  -> 512
      [] cents = 102  -> 1024
      [] cents = 1000 -> 0
      [] cents = 1001 -> -12288
      [] cents = 1002 -> -24576

\* the double 0.01 minus one hundredth, in the same units
ToleranceErr == 12

\* Math.abs(hsAmount - acAmount) > 0.01 on doubles.  Amounts one cent apart
\* are subtracted exactly, so the rounding errors of the two amounts decide
\* against the rounding error of 0.01; further apart or equal, the errors
\* are too small to matter.
valueMismatch(hsDeal, acDeal) ==
    LET hc == parseAmount(hsDeal.amount)
        ac == parseAmount(acDeal.value)
        e  == doubleErr(hc) - doubleErr(ac) IN
    IF Abs(hc - ac) # 1 THEN Abs(hc - ac) > 1
    ELSE (IF hc > ac THEN e ELSE -e) > ToleranceErr

ValueEntry(hsDeal, acDeal) ==
    [hubspotId |-> hsDeal.id, activeCampaignId |-> acDeal.id,
     dealName |-> hsDeal.dealname,
     hubspotAmount |-> parseAmount(hsDeal.amount),
     activeCampaignAmount |-> parseAmount(acDeal.value),
     difference |-> parseAmount(hsDeal.amount) - parseAmount(acDeal.value)]

\* An analysis in progress: the gaps so far, and whether an exception has
\* ended it
Running(g) == [gaps |-> g, threw |-> FALSE]
Thrown(g)  == [gaps |-> g, threw |-> TRUE]

compareDealFields(hsDeal, acDeal, g) ==
    LET g1 == IF statusMismatch(hsDeal, acDeal)
              THEN [g EXCEPT !.deals.statusMismatches = Append(@, StatusEntry(hsDeal, acDeal))]
              ELSE g
        g2 == IF valueMismatch(hsDeal, acDeal)
              THEN [g1 EXCEPT !.deals.valueMismatches = Append(@, ValueEntry(hsDeal, acDeal))]
              ELSE g1 IN
    IF closeDateThrows(hsDeal.closedate) THEN Thrown(g2)
    ELSE Running([g2 EXCEPT !.deals.dateMismatches =
                               @ \o analyzeCloseDateMismatch(hsDeal, acDeal)])

\* the pairs analyzeDealMismatches compares, in the order it compares them
RECURSIVE CrossPairs(_, _)
CrossPairs(hsDeals, acs) ==
    IF hsDeals = <<>> THEN <<>>
    ELSE [j \in 1..Len(acs) |-> <<Head(hsDeals), acs[j]>>]
           \o CrossPairs(Tail(hsDeals), acs)

RECURSIVE JoinedPairsOf(_, _, _)
JoinedPairsOf(keys, hs, ac) ==
    IF keys = <<>> THEN <<>>
    ELSE CrossPairs(hubspotDealsByName(hs, Head(keys)), acDealsByTitle(ac, Head(keys)))
           \o JoinedPairsOf(Tail(keys), hs, ac)

JoinedPairs(hs, ac) == JoinedPairsOf(hubspotDealsByNameKeys(hs), hs, ac)

RECURSIVE ComparePairs(_, _)
ComparePairs(pairs, r) ==
    IF pairs = <<>> \/ r.threw THEN r
    ELSE ComparePairs(Tail(pairs), compareDealFields(Head(pairs)[1], Head(pairs)[2], r.gaps))

analyzeDealMismatches(hs, ac, g) == ComparePairs(JoinedPairs(hs, ac), Running(g))


AppointmentStr == <<"a","p","p","o","i","n","t","m","e","n","t">>

IssueClosedMissingDate == "Closed deal missing close date - migration issue"
IssueWonNoAmount       == "Won deal missing or zero amount"
IssueOpenHasDate       == "Open deal has close date - possible migration issue"
IssueActiveNoDate      == "Active deal stage without close date - verify if correct"

\* issue.includes('close date')
MentionsCloseDate(issue) ==
    issue \in {IssueClosedMissingDate, IssueOpenHasDate, IssueActiveNoDate}

\* the issues list analyzeMigrationIssues builds for one HubSpot deal
migrationIssuesOf(deal) ==
    LET dealStage == deal.dealstage
        closeDate == deal.closedate
        amount    == deal.amount
        closed    == dealStage = ClosedWonStr \/ dealStage = ClosedLostStr
        i1 == IF closed /\ ~HasDate(closeDate) THEN <<IssueClosedMissingDate>> ELSE <<>>
        i2 == IF dealStage = ClosedWonStr /\ (~amount.has \/ amount.cents = 0)
              THEN <<IssueWonNoAmount>> ELSE <<>>
        i3 == IF Truthy(dealStage) /\ ~closed /\ HasDate(closeDate)
              THEN <<IssueOpenHasDate>> ELSE <<>>
        i4 == IF Truthy(dealStage)
                 /\ (includes(dealStage, AppointmentStr) \/ includes(dealStage, QualifiedStr))
                 /\ ~HasDate(closeDate)
              THEN <<IssueActiveNoDate>> ELSE <<>> IN
    i1 \o i2 \o i3 \o i4

MigrationIssueEntry_FirstIssueOnly(deal) ==
    LET issues == migrationIssuesOf(deal) IN
    [hubspotId |-> deal.id, dealName |-> deal.dealname, stage |-> deal.dealstage,
     amount |-> deal.amount, closeDate |-> deal.closedate, issues |-> <<issues[1]>>,
     needsCloseDateReview |-> MentionsCloseDate(issues[1])]

\* the entry analyzeMigrationIssues pushes for a deal with issues
MigrationIssueEntry(deal) ==
    LET issues == migrationIssuesOf(deal) IN
    [hubspotId |-> deal.id, dealName |-> deal.dealname, stage |-> deal.dealstage,
     amount |-> deal.amount, closeDate |-> deal.closedate, issues |-> issues,
     needsCloseDateReview |-> \E i \in 1..Len(issues) : MentionsCloseDate(issues[i])]

RECURSIVE MigrationIssueEntries(_)
MigrationIssueEntries(hs) ==
    IF hs = <<>> THEN <<>>
    ELSE (IF migrationIssuesOf(Head(hs)) # <<>>
          THEN <<MigrationIssueEntry(Head(hs))>> ELSE <<>>)
           \o MigrationIssueEntries(Tail(hs))

analyzeMigrationIssues(hs, g) ==
    [g EXCEPT !.deals.migrationIssues = @ \o MigrationIssueEntries(hs)]

closeDateIssueOf_DateOfFirstLegacyDeal(hsDeal, ac) ==
    LET dealName == hsName(hsDeal)
        matchingAcDeals == acDealsByTitle(ac, dealName) IN
    IF /\ (hsDeal.dealstage = ClosedWonStr \/ hsDeal.dealstage = ClosedLostStr)
       /\ ~HasDate(hsDeal.closedate)
       /\ Truthy(dealName)
       /\ Len(matchingAcDeals) > 0
       /\ HasDate(matchingAcDeals[1].edate)
    THEN << DateEntry(hsDeal, matchingAcDeals[1], NoDate, matchingAcDeals[1].edate,
                      ac[1].edate, 0, "missing_close_date_in_hubspot",
                      "HIGH", FALSE, "analyzeCloseDateIssues") >>
    ELSE <<>>

\* the entry analyzeCloseDateIssues pushes for one HubSpot deal (none or one)
closeDateIssueOf(hsDeal, ac) ==
    LET dealName == hsName(hsDeal)
        matchingAcDeals == acDealsByTitle(ac, dealName) IN
    IF /\ (hsDeal.dealstage = ClosedWonStr \/ hsDeal.dealstage = ClosedLostStr)
       /\ ~HasDate(hsDeal.closedate)
       /\ Truthy(dealName)
       /\ Len(matchingAcDeals) > 0
       /\ HasDate(matchingAcDeals[1].edate)
    THEN << DateEntry(hsDeal, matchingAcDeals[1], NoDate, matchingAcDeals[1].edate,
                      matchingAcDeals[1].edate, 0, "missing_close_date_in_hubspot",
                      "HIGH", FALSE, "analyzeCloseDateIssues") >>
    ELSE <<>>

RECURSIVE CloseDateIssueEntries(_, _)
CloseDateIssueEntries(hs, ac) ==
    IF hs = <<>> THEN <<>>
    ELSE closeDateIssueOf(Head(hs), ac) \o CloseDateIssueEntries(Tail(hs), ac)

analyzeCloseDateIssues(hs, ac, g) ==
    [g EXCEPT !.deals.dateMismatches = @ \o CloseDateIssueEntries(hs, ac)]

analyzeDealsComprehensively(hs, ac, g) ==
    LET r == analyzeDealMismatches(hs, ac, findMissingDeals(hs, ac, g)) IN
    IF r.threw THEN r
    ELSE Running(analyzeCloseDateIssues(hs, ac, analyzeMigrationIssues(hs, r.gaps)))

\* filterMigrationDeals: toISOString throws on the first close date that is
\* present and not parseable
filterThrows(deals) ==
    \E i \in 1..Len(deals) : closeDateThrows(deals[i].closedate)

filterMigrationDeals(deals) ==
    SelectSeq(deals, LAMBDA deal :
        HasDate(deal.closedate) /\ ISODate(deal.closedate) = MIGRATION_DATE_analyzer)

-----------------------------------------------------------------------------
(* The data-gap analyzer: empty fields *)

\* examples are kept up to this many per field
MaxExamples == 5

\* ((count / total) * 100).toFixed(1)
toFixed1(count, total) ==
    IF total = 0 THEN "NaN"              \* 0 / 0
    ELSE LET tenths == (2000 * count + total) \div (2 * total) IN
         ToString(tenths \div 10) \o "." \o ToString(tenths % 10)

\* !value || value.trim() === ''
EmptyString(v) == ~Truthy(v) \/ trim(v) = <<>>

ContactFields ==
    <<"firstname", "lastname", "phone", "company", "jobtitle", "website", "city", "state">>

DealFields == <<"dealname", "amount", "dealstage", "closedate", "dealtype">>

EmptyContactField(contact, field) == EmptyString(contact.properties[field])

EmptyDealField(deal, field) ==
    CASE field = "amount"    -> ~deal.amount.has
      [] field = "closedate" -> ~HasDate(deal.closedate)
      [] OTHER               -> EmptyString(deal[field])

FirstN(seq, n) == IF Len(seq) <= n THEN seq ELSE SubSeq(seq, 1, n)

ContactFieldStat(contacts, field) ==
    LET empties == SelectSeq(contacts, LAMBDA c : EmptyContactField(c, field)) IN
    [field |-> field, count |-> Len(empties),
     percentage |-> toFixed1(Len(empties), Len(contacts)),
     examples |-> FirstN([i \in 1..Len(empties) |->
                            [email |-> empties[i].properties.email, id |-> empties[i].id]],
                         MaxExamples)]

DealFieldStat(deals, field) ==
    LET empties == SelectSeq(deals, LAMBDA d : EmptyDealField(d, field)) IN
    [field |-> field, count |-> Len(empties),
     percentage |-> toFixed1(Len(empties), Len(deals)),
     examples |-> FirstN([i \in 1..Len(empties) |->
                            [name |-> empties[i].dealname, id |-> empties[i].id]],
                         MaxExamples)]

analyzeContactEmptyFields(contacts, g) ==
    [g EXCEPT !.contacts.emptyFields =
        [i \in 1..Len(ContactFields) |-> ContactFieldStat(contacts, ContactFields[i])]]

analyzeDealEmptyFields(deals, g) ==
    [g EXCEPT !.deals.emptyFields =
        [i \in 1..Len(DealFields) |-> DealFieldStat(deals, DealFields[i])]]

\* analyzeEmptyFields; the company snapshot of the model is empty, so the
\* company audit is not entered
analyzeEmptyFields(contacts, deals, g) ==
    LET g1 == analyzeContactEmptyFields(contacts, g) IN
    IF Len(deals) > 0 THEN analyzeDealEmptyFields(deals, g1) ELSE g1

-----------------------------------------------------------------------------
(* The data-gap analyzer: contacts *)

HsContact(i, e, f, l, p) ==
    [id |-> i,
     properties |-> [email |-> e, firstname |-> f, lastname |-> l, phone |-> p,
                     company |-> Undefined, jobtitle |-> Undefined,
                     website |-> Undefined, city |-> Undefined, state |-> Undefined]]

AcContact(i, e, f, l, p) ==
    [id |-> i, email |-> e, firstName |-> f, lastName |-> l, phone |-> p]

\* contact.email?.toLowerCase()
lowerEmail(e) == IF e = Undefined THEN Undefined ELSE toLowerCase(e)

hubspotByEmailKeys(hsC) ==
    MapKeys([i \in 1..Len(hsC) |-> lowerEmail(hsC[i].properties.email)])

acByEmailKeys(acC) == MapKeys([i \in 1..Len(acC) |-> lowerEmail(acC[i].email)])

\* Map.get: set() keeps the last contact stored under an e-mail
hubspotByEmail(hsC, email) ==
    LET same == SelectSeq(hsC, LAMBDA c : lowerEmail(c.properties.email) = email) IN
    same[Len(same)]

acByEmail(acC, email) ==
    LET same == SelectSeq(acC, LAMBDA c : lowerEmail(c.email) = email) IN
    same[Len(same)]

MissingContactInHubSpot(email, contact) ==
    [email |-> email, firstName |-> contact.firstName, lastName |-> contact.lastName,
     phone |-> contact.phone]

MissingContactInActiveCampaign(email, contact) ==
    [email |-> email, firstName |-> contact.properties.firstname,
     lastName |-> contact.properties.lastname, phone |-> contact.properties.phone]

analyzeContactGaps(hsC, acC, g) ==
    LET hsKeys == hubspotByEmailKeys(hsC)
        acKeys == acByEmailKeys(acC)
        onlyAc == SelectSeq(acKeys, LAMBDA k : ~HasKey(hsKeys, k))
        onlyHs == SelectSeq(hsKeys, LAMBDA k : ~HasKey(acKeys, k)) IN
    [g EXCEPT
       !.contacts.missingInHubSpot =
           @ \o [i \in 1..Len(onlyAc) |->
                   MissingContactInHubSpot(onlyAc[i], acByEmail(acC, onlyAc[i]))],
       !.contacts.missingInActiveCampaign =
           @ \o [i \in 1..Len(onlyHs) |->
                   MissingContactInActiveCampaign(onlyHs[i], hubspotByEmail(hsC, onlyHs[i]))]]

IsDigit(c) == c \in {"0","1","2","3","4","5","6","7","8","9"}

\* phone?.replace(/\D/g, '')
digitsOf(phone) == IF phone = Undefined THEN Undefined ELSE SelectSeq(phone, IsDigit)

FieldMismatch(field, acValue, hsValue) ==
    [field |-> field, activecampaign |-> acValue, hubspot |-> hsValue]

contactMismatches(acContact, hsContact) ==
    LET acPhone == digitsOf(acContact.phone)
        hsPhone == digitsOf(hsContact.properties.phone) IN
    (IF acContact.firstName # hsContact.properties.firstname
     THEN <<FieldMismatch("firstName", acContact.firstName, hsContact.properties.firstname)>>
     ELSE <<>>)
    \o (IF acContact.lastName # hsContact.properties.lastname
        THEN <<FieldMismatch("lastName", acContact.lastName, hsContact.properties.lastname)>>
        ELSE <<>>)
    \o (IF Truthy(acPhone) /\ Truthy(hsPhone) /\ acPhone # hsPhone
        THEN <<FieldMismatch("phone", acContact.phone, hsContact.properties.phone)>>
        ELSE <<>>)

RECURSIVE FieldMismatchEntries(_, _)
FieldMismatchEntries(acC, hsC) ==
    IF acC = <<>> THEN <<>>
    ELSE LET acContact == Head(acC)
             email == lowerEmail(acContact.email)
             here ==
               IF Truthy(email) /\ HasKey(hubspotByEmailKeys(hsC), email)
               THEN LET mismatches ==
                          contactMismatches(acContact, hubspotByEmail(hsC, email)) IN
                    IF Len(mismatches) > 0
                    THEN <<[email |-> email, mismatches |-> mismatches]>> ELSE <<>>
               ELSE <<>> IN
         here \o FieldMismatchEntries(Tail(acC), hsC)

analyzeFieldMismatches(hsC, acC, g) ==
    [g EXCEPT !.contacts.fieldMismatches = @ \o FieldMismatchEntries(acC, hsC)]

-----------------------------------------------------------------------------
(* The duplicate analyzer: contacts by e-mail *)

\* contact.properties.email?.toLowerCase().trim()
normEmail(e) == IF e = Undefined THEN Undefined ELSE trim(toLowerCase(e))

emailGroupKeys(contacts) ==
    MapKeys([i \in 1..Len(contacts) |-> normEmail(contacts[i].properties.email)])

emailGroup(contacts, email) ==
    SelectSeq(contacts, LAMBDA c : normEmail(c.properties.email) = email)

EmailDuplicate(contacts, email) ==
    LET group == emailGroup(contacts, email) IN
    [email |-> email, count |-> Len(group),
     contacts |-> [i \in 1..Len(group) |-> group[i].id]]

findDuplicatesByEmail(contacts, d) ==
    LET dupKeys == SelectSeq(emailGroupKeys(contacts),
                             LAMBDA k : Len(emailGroup(contacts, k)) > 1) IN
    [d EXCEPT !.contacts.byEmail =
        @ \o [i \in 1..Len(dupKeys) |-> EmailDuplicate(contacts, dupKeys[i])]]

-----------------------------------------------------------------------------
(* The duplicate analyzer: the other rules.  A rule collects its groups in *)
(* an object keyed by the normalized value and reports the keys in the     *)
(* order of Object.keys, which is the order of insertion for the keys of   *)
(* this model (none is an array index).                                    *)

HsContactAt(i, e, f, l, p, c) ==
    [HsContact(i, e, f, l, p) EXCEPT !.properties.company = c]

HsCompany(i, n, d) == [id |-> i, properties |-> [name |-> n, domain |-> d]]

\* the identifiers of the records of a group, in the order of the group
idsOf(group) == [i \in 1..Len(group) |-> group[i].id]

\* phone numbers are compared on their last ten digits
PhoneDigits == 10

\* phone?.replace(/\D/g, ''), then slice(-10) if there are at least ten digits
phoneKey(contact) ==
    LET phone == digitsOf(contact.properties.phone) IN
    IF Truthy(phone) /\ Len(phone) >= PhoneDigits
    THEN SubSeq(phone, Len(phone) - PhoneDigits + 1, Len(phone))
    ELSE Undefined

phoneGroup(contacts, phone) == SelectSeq(contacts, LAMBDA c : phoneKey(c) = phone)

findDuplicatesByPhone(contacts, d) ==
    LET keys == MapKeys([i \in 1..Len(contacts) |-> phoneKey(contacts[i])])
        dupKeys == SelectSeq(keys, LAMBDA k : Len(phoneGroup(contacts, k)) > 1) IN
    [d EXCEPT !.contacts.byPhone =
        @ \o [i \in 1..Len(dupKeys) |->
                [phone |-> dupKeys[i], count |-> Len(phoneGroup(contacts, dupKeys[i])),
                 contacts |-> idsOf(phoneGroup(contacts, dupKeys[i]))]]]

\* x?.toLowerCase().trim() || ''
lowerTrimmed(x) == IF x = Undefined THEN <<>> ELSE trim(toLowerCase(x))

\* `${firstName} ${lastName}`, if both are non-empty
fullNameKey(contact) ==
    LET firstName == lowerTrimmed(contact.properties.firstname)
        lastName  == lowerTrimmed(contact.properties.lastname) IN
    IF firstName # <<>> /\ lastName # <<>>
    THEN firstName \o <<" ">> \o lastName ELSE Undefined

fullNameGroup(contacts, name) == SelectSeq(contacts, LAMBDA c : fullNameKey(c) = name)

findDuplicatesByName(contacts, d) ==
    LET keys == MapKeys([i \in 1..Len(contacts) |-> fullNameKey(contacts[i])])
        dupKeys == SelectSeq(keys, LAMBDA k : Len(fullNameGroup(contacts, k)) > 1) IN
    [d EXCEPT !.contacts.byName =
        @ \o [i \in 1..Len(dupKeys) |->
                [name |-> dupKeys[i], count |-> Len(fullNameGroup(contacts, dupKeys[i])),
                 contacts |-> idsOf(fullNameGroup(contacts, dupKeys[i]))]]]

\* the two parts of the key `${company}|${firstName} ${lastName}`; no
\* company of this model contains the separator
companyNameKey(contact) ==
    LET company == lowerTrimmed(contact.properties.company) IN
    IF fullNameKey(contact) # Undefined /\ company # <<>>
    THEN <<company, fullNameKey(contact)>> ELSE Undefined

companyNameGroup(contacts, key) ==
    SelectSeq(contacts, LAMBDA c : companyNameKey(c) = key)

\* MapKeys for keys of two parts
RECURSIVE PairKeys(_)
PairKeys(ks) ==
    IF ks = <<>> THEN <<>>
    ELSE LET rest == PairKeys(SubSeq(ks, 1, Len(ks) - 1))
             k    == ks[Len(ks)] IN
         IF k # Undefined /\ ~(\E i \in 1..Len(rest) : rest[i] = k)
         THEN Append(rest, k) ELSE rest

findDuplicatesByCompanyAndName(contacts, d) ==
    LET keys == PairKeys([i \in 1..Len(contacts) |-> companyNameKey(contacts[i])])
        dupKeys == SelectSeq(keys, LAMBDA k : Len(companyNameGroup(contacts, k)) > 1) IN
    [d EXCEPT !.contacts.byCompany =
        @ \o [i \in 1..Len(dupKeys) |->
                [company |-> dupKeys[i][1], name |-> dupKeys[i][2],
                 count |-> Len(companyNameGroup(contacts, dupKeys[i])),
                 contacts |-> idsOf(companyNameGroup(contacts, dupKeys[i]))]]]

companyNameGroupOf(companies, name) ==
    SelectSeq(companies, LAMBDA c : normTitle(c.properties.name) = name)

companyDomainGroup(companies, domain) ==
    SelectSeq(companies, LAMBDA c : normTitle(c.properties.domain) = domain)

findCompanyDuplicates(companies, d) ==
    IF Len(companies) = 0 THEN d
    ELSE
    LET names == MapKeys([i \in 1..Len(companies) |-> normTitle(companies[i].properties.name)])
        dupNames == SelectSeq(names, LAMBDA k : Len(companyNameGroupOf(companies, k)) > 1)
        domains == MapKeys([i \in 1..Len(companies) |->
                              normTitle(companies[i].properties.domain)])
        dupDomains == SelectSeq(domains, LAMBDA k : Len(companyDomainGroup(companies, k)) > 1)
    IN
    [d EXCEPT
       !.companies.byName =
          @ \o [i \in 1..Len(dupNames) |->
                  [name |-> dupNames[i],
                   count |-> Len(companyNameGroupOf(companies, dupNames[i])),
                   companies |-> idsOf(companyNameGroupOf(companies, dupNames[i]))]],
       !.companies.byDomain =
          @ \o [i \in 1..Len(dupDomains) |->
                  [domain |-> dupDomains[i],
                   count |-> Len(companyDomainGroup(companies, dupDomains[i])),
                   companies |-> idsOf(companyDomainGroup(companies, dupDomains[i]))]]]

dealNameGroup(deals, name) == SelectSeq(deals, LAMBDA deal : hsName(deal) = name)

\* findDealDuplicates reporting every name, also one held by a single deal
findDealDuplicates_Singletons(deals, d) ==
    IF Len(deals) = 0 THEN d
    ELSE
    LET names == MapKeys([i \in 1..Len(deals) |-> hsName(deals[i])]) IN
    [d EXCEPT !.deals.byName =
        @ \o [i \in 1..Len(names) |->
                [name |-> names[i], count |-> Len(dealNameGroup(deals, names[i])),
                 deals |-> idsOf(dealNameGroup(deals, names[i]))]]]

findDealDuplicates(deals, d) ==
    IF Len(deals) = 0 THEN d
    ELSE
    LET names == MapKeys([i \in 1..Len(deals) |-> hsName(deals[i])])
        dupNames == SelectSeq(names, LAMBDA k : Len(dealNameGroup(deals, k)) > 1) IN
    [d EXCEPT !.deals.byName =
        @ \o [i \in 1..Len(dupNames) |->
                [name |-> dupNames[i], count |-> Len(dealNameGroup(deals, dupNames[i])),
                 deals |-> idsOf(dealNameGroup(deals, dupNames[i]))]]]

-----------------------------------------------------------------------------
(* CSVReporter.writeDuplicateReport *)

\* item.f, read as a condition
Has(item, f) == f \in DOMAIN item /\ Truthy(item[f])

\* item.f || []
RecordsOf(item, f) == IF f \in DOMAIN item THEN item[f] ELSE <<>>

\* the row pushed for one item of one category (none for an unknown structure)
csvRowsOf(objectType, category, item) ==
    LET Row(identifier, records, priority) ==
          << [object_type |-> objectType, duplicate_type |-> category,
              priority |-> priority, identifier |-> identifier,
              count |-> IF item.count # 0 THEN item.count ELSE Len(records),
              record_ids |-> records] >> IN
    IF Has(item, "email") THEN Row(item.email, RecordsOf(item, "contacts"), "HIGH")
    ELSE IF Has(item, "phone") THEN Row(item.phone, RecordsOf(item, "contacts"), "MEDIUM")
    ELSE IF Has(item, "name") THEN Row(item.name, RecordsOf(item, "contacts"), "LOW")
    ELSE IF Has(item, "domain") THEN Row(item.domain, RecordsOf(item, "companies"), "HIGH")
    ELSE IF Has(item, "company")
    THEN Row(item.company, RecordsOf(item, "companies"), "MEDIUM")
    ELSE IF Has(item, "deal") THEN Row(item.deal, RecordsOf(item, "deals"), "MEDIUM")
    ELSE <<>>

RECURSIVE csvRowsOfItems(_, _, _)
csvRowsOfItems(objectType, category, items) ==
    IF items = <<>> THEN <<>>
    ELSE csvRowsOf(objectType, category, Head(items))
           \o csvRowsOfItems(objectType, category, Tail(items))

\* Object.entries(duplicates), then Object.entries(categories)
csvRowsUnsorted(d) ==
    csvRowsOfItems("contacts", "byEmail", d.contacts.byEmail)
    \o csvRowsOfItems("contacts", "byPhone", d.contacts.byPhone)
    \o csvRowsOfItems("contacts", "byName", d.contacts.byName)
    \o csvRowsOfItems("contacts", "byCompany", d.contacts.byCompany)
    \o csvRowsOfItems("companies", "byName", d.companies.byName)
    \o csvRowsOfItems("companies", "byDomain", d.companies.byDomain)
    \o csvRowsOfItems("deals", "byName", d.deals.byName)
    \o csvRowsOfItems("deals", "byCompanyAndName", d.deals.byCompanyAndName)

priorityRank(priority) ==
    CASE priority = "HIGH" -> 3 [] priority = "MEDIUM" -> 2 [] priority = "LOW" -> 1

\* the comparator of csvData.sort is negative: a goes before b
SortsBefore(a, b) ==
    IF priorityRank(a.priority) # priorityRank(b.priority)
    THEN priorityRank(b.priority) - priorityRank(a.priority) < 0
    ELSE b.count - a.count < 0

\* Array.prototype.sort is stable: a row goes before the first row it
\* strictly precedes
RECURSIVE InsertRow(_, _)
InsertRow(sorted, row) ==
    IF sorted = <<>> THEN <<row>>
    ELSE IF SortsBefore(row, Head(sorted)) THEN <<row>> \o sorted
    ELSE <<Head(sorted)>> \o InsertRow(Tail(sorted), row)

RECURSIVE SortRows(_)
SortRows(rows) ==
    IF rows = <<>> THEN <<>>
    ELSE InsertRow(SortRows(SubSeq(rows, 1, Len(rows) - 1)), rows[Len(rows)])

writeDuplicateReport(d) == SortRows(csvRowsUnsorted(d))

-----------------------------------------------------------------------------
(* runAnalysis of the duplicate analyzer, on the collections as fetched *)

runAnalysisDuplicates(opts, contacts, companies, deals, d) ==
    LET d1 == IF opts.includeContacts
              THEN findDuplicatesByCompanyAndName(contacts,
                     findDuplicatesByName(contacts,
                       findDuplicatesByPhone(contacts,
                         findDuplicatesByEmail(contacts, d))))
              ELSE d
        d2 == IF opts.includeCompanies THEN findCompanyDuplicates(companies, d1) ELSE d1
    IN IF opts.includeDeals THEN findDealDuplicates(deals, d2) ELSE d2

-----------------------------------------------------------------------------
(* analyzeData *)

\* the outcome of analyzeData: the gaps, this.hubspotDeals (which the
\* migration-deals-only filter replaces) and whether an exception ended it
Outcome(r, deals) == [gaps |-> r.gaps, threw |-> r.threw, hubspotDeals |-> deals]

analyzeDataBody(opts, hsD, acD, hsC, acC, g) ==
    IF opts.focusDeals
    THEN LET r == IF opts.includeDeals
                  THEN analyzeDealsComprehensively(hsD, acD, g) ELSE Running(g) IN
         IF r.threw THEN r
         ELSE IF Len(hsD) > 0 THEN Running(analyzeDealEmptyFields(hsD, r.gaps)) ELSE r
    ELSE LET g1 == IF opts.includeContacts THEN analyzeContactGaps(hsC, acC, g) ELSE g
             r  == IF opts.includeDeals
                   THEN analyzeDealsComprehensively(hsD, acD, g1) ELSE Running(g1) IN
         IF r.threw THEN r
         ELSE Running(analyzeEmptyFields(hsC, hsD, r.gaps))

analyzeData(opts, hsD, acD, hsC, acC, g) ==
    IF opts.migrationDealsOnly
    THEN IF filterThrows(hsD) THEN Outcome(Thrown(g), hsD)
         ELSE Outcome(analyzeDataBody(opts, filterMigrationDeals(hsD), acD, hsC, acC, g),
                      filterMigrationDeals(hsD))
    ELSE Outcome(analyzeDataBody(opts, hsD, acD, hsC, acC, g), hsD)

-----------------------------------------------------------------------------
(* Operations on one analyzer instance.  An exception ends the script      *)
(* (runGapAnalysis exits), after which nothing more is invoked.            *)

CanInvoke == phase # "failed" /\ Len(history) < MaxRuns

Invoked(op) ==
    /\ history' = Append(history, op)
    /\ firstGaps' = IF history = <<>> THEN gaps' ELSE firstGaps
    /\ firstDuplicates' = IF history = <<>> THEN duplicates' ELSE firstDuplicates

AnalyzeData ==
    /\ CanInvoke
    /\ LET r == analyzeData(options, hubspotDeals, acDeals, hubspotContacts,
                            acContacts, gaps) IN
       /\ gaps' = r.gaps
       /\ hubspotDeals' = r.hubspotDeals
       /\ phase' = IF r.threw THEN "failed" ELSE "done"
    /\ UNCHANGED <<acDeals, hubspotContacts, acContacts, options, duplicates, updVars, dupVars, cacheVars>>
    /\ Invoked("analyzeData")

AnalyzeDealsComprehensively ==
    /\ CanInvoke
    /\ LET r == analyzeDealsComprehensively(hubspotDeals, acDeals, gaps) IN
       /\ gaps' = r.gaps
       /\ phase' = IF r.threw THEN "failed" ELSE "done"
    /\ UNCHANGED <<snapVars, options, duplicates, updVars, dupVars, cacheVars>>
    /\ Invoked("analyzeDealsComprehensively")

AnalyzeContactGaps ==
    /\ CanInvoke
    /\ gaps' = analyzeContactGaps(hubspotContacts, acContacts, gaps)
    /\ phase' = "done"
    /\ UNCHANGED <<snapVars, options, duplicates, updVars, dupVars, cacheVars>>
    /\ Invoked("analyzeContactGaps")

AnalyzeFieldMismatches ==
    /\ CanInvoke
    /\ gaps' = analyzeFieldMismatches(hubspotContacts, acContacts, gaps)
    /\ phase' = "done"
    /\ UNCHANGED <<snapVars, options, duplicates, updVars, dupVars, cacheVars>>
    /\ Invoked("analyzeFieldMismatches")

AnalyzeEmptyFields ==
    /\ CanInvoke
    /\ gaps' = analyzeEmptyFields(hubspotContacts, hubspotDeals, gaps)
    /\ phase' = "done"
    /\ UNCHANGED <<snapVars, options, duplicates, updVars, dupVars, cacheVars>>
    /\ Invoked("analyzeEmptyFields")

FindDuplicatesByEmail ==
    /\ CanInvoke
    /\ duplicates' = findDuplicatesByEmail(hubspotContacts, duplicates)
    /\ phase' = "done"
    /\ UNCHANGED <<snapVars, options, gaps, updVars, dupVars, cacheVars>>
    /\ Invoked("findDuplicatesByEmail")

\* node scripts/hubspot-duplicate-analyzer.js: with --help, or with
\* --cache-stats and no --flush-cache, nothing is analysed
RunAnalysis ==
    /\ CanInvoke
    /\ IF options.help \/ (options.cacheStats /\ ~options.flushCache)
       THEN UNCHANGED <<duplicates, csvData>>
       ELSE /\ duplicates' = runAnalysisDuplicates(options, hubspotContacts,
                                hubspotCompanies, hubspotDeals, duplicates)
            /\ csvData' = writeDuplicateReport(duplicates')
    /\ phase' = "done"
    /\ UNCHANGED <<snapVars, hubspotCompanies, options, gaps, updVars, cacheVars>>
    /\ Invoked("runAnalysis")

FindDuplicatesByPhone ==
    /\ CanInvoke
    /\ duplicates' = findDuplicatesByPhone(hubspotContacts, duplicates)
    /\ phase' = "done"
    /\ UNCHANGED <<snapVars, options, gaps, updVars, dupVars, cacheVars>>
    /\ Invoked("findDuplicatesByPhone")

FindCompanyDuplicates ==
    /\ CanInvoke
    /\ duplicates' = findCompanyDuplicates(hubspotCompanies, duplicates)
    /\ phase' = "done"
    /\ UNCHANGED <<snapVars, options, gaps, updVars, dupVars, cacheVars>>
    /\ Invoked("findCompanyDuplicates")

FindDealDuplicates ==
    /\ CanInvoke
    /\ duplicates' = findDealDuplicates(hubspotDeals, duplicates)
    /\ phase' = "done"
    /\ UNCHANGED <<snapVars, options, gaps, updVars, dupVars, cacheVars>>
    /\ Invoked("findDealDuplicates")

-----------------------------------------------------------------------------
(* Specification of the contact analyses: SpecContacts *)

Emails == { <<"a">>, <<"A">>, <<"a", " ">>, Undefined }

\* first name, last name, phone
HsProfiles == { << <<"x">>, <<"y">>, <<"1", "-", "2">> >>,
                << <<"X">>, <<"y">>, Undefined >> }
AcProfiles == { << <<"x">>, <<"y">>, <<"1", "2">> >>,
                << <<"x">>, <<"z">>, <<"1", "3">> >> }

HsContacts(n) ==
    { [i \in 1..n |-> HsContact(i, f[i][1], f[i][2][1], f[i][2][2], f[i][2][3])] :
        f \in [1..n -> Emails \X HsProfiles] }

AcContacts(n) ==
    { [i \in 1..n |-> AcContact(i, f[i][1], f[i][2][1], f[i][2][2], f[i][2][3])] :
        f \in [1..n -> Emails \X AcProfiles] }

\* getHubSpotContacts leaves this.hubspotContacts empty without includeContacts
InitContacts ==
    /\ options \in { Options(TRUE, TRUE, FALSE, FALSE), Options(TRUE, TRUE, TRUE, FALSE),
                     Options(FALSE, TRUE, FALSE, FALSE) }
    /\ \E n \in 0..MaxContacts :
         hubspotContacts \in (IF options.includeContacts THEN HsContacts(n) ELSE {<<>>})
    /\ \E n \in 0..MaxContacts : acContacts \in AcContacts(n)
    /\ hubspotDeals = <<>>
    /\ acDeals = <<>>
    /\ phase = "idle"
    /\ gaps = EmptyGaps
    /\ duplicates = EmptyDuplicates
    /\ history = <<>>
    /\ firstGaps = EmptyGaps
    /\ firstDuplicates = EmptyDuplicates
    /\ store = <<>>
    /\ UpdIdle
    /\ DupIdle
    /\ CacheIdle

NextContacts ==
    \/ AnalyzeData
    \/ AnalyzeContactGaps
    \/ AnalyzeFieldMismatches
    \/ AnalyzeEmptyFields
    \/ FindDuplicatesByEmail

SpecContacts == InitContacts /\ [][NextContacts]_vars

-----------------------------------------------------------------------------
(* Specification of the deal analyses: SpecDeals *)

DealStages  == { ClosedWonStr, ClosedLostStr, QualifiedStr, WonStr, Undefined,
                 <<"C","l","o","s","e","d","W","o","n">>, <<"L","O","S","T">> }
HsDates     == { NoDate, BadDate, At(PlaceholderMs), At(DayMs), At(DayMs + 1) }
AcDates     == { NoDate, BadDate, At(0) }
HsAmounts   == { NoAmount, Amount(0), Amount(1000) }
AcValues    == { NoAmount, Amount(1000), Amount(1002) }
AcStatuses  == { "0", "1", "2", "7" }

\* one deal on each platform under the same title, every field varied
OnePair ==
    { << <<HsDeal(1, <<"A">>, st, d, am)>>, <<AcDeal(1, <<"a", " ">>, s, e, v)>> >> :
        st \in DealStages, d \in HsDates, am \in HsAmounts,
        s \in AcStatuses, e \in AcDates, v \in AcValues }

\* one won deal on each platform with close dates a day apart, the amounts
\* at and around the tolerance of one cent
HsBoundaryAmounts == { NoAmount, Amount(101), Amount(102), Amount(1001) }
AcBoundaryValues  == { NoAmount, Amount(100), Amount(101), Amount(1000) }

ValuePairs ==
    { << <<HsDeal(1, <<"A">>, ClosedWonStr, At(DayMs), am)>>,
         <<AcDeal(1, <<"a", " ">>, "1", At(0), v)>> >> :
        am \in HsBoundaryAmounts, v \in AcBoundaryValues }

\* stage and close date
HsShapes == { <<ClosedWonStr, NoDate>>, <<ClosedWonStr, At(PlaceholderMs)>>,
              <<QualifiedStr, At(DayMs + 1)>> }
\* status and close date
AcShapes == { <<"1", At(0)>>, <<"0", NoDate>> }

HsDealNames == { <<"A">>, <<"b">>, Undefined }
AcTitles    == { <<"a", " ">>, <<"b">> }

HsDealLists(n) ==
    { [i \in 1..n |-> HsDeal(i, f[i][1], f[i][2][1], f[i][2][2], Amount(1000))] :
        f \in [1..n -> HsDealNames \X HsShapes] }

AcDealLists(n) ==
    { [i \in 1..n |-> AcDeal(i, f[i][1], f[i][2][1], f[i][2][2], Amount(1000))] :
        f \in [1..n -> AcTitles \X AcShapes] }

\* several deals on each platform, names and titles varied
ManyDeals ==
    UNION { HsDealLists(n) \X AcDealLists(m) : n \in 0..MaxDeals, m \in 0..MaxDeals }

\* one won deal on each platform, the legacy close date on the placeholder day
LegacyOnPlaceholderDayPairs ==
    { << <<HsDeal(1, <<"A">>, ClosedWonStr, d, Amount(1000))>>,
         <<AcDeal(1, <<"a", " ">>, "1", At(PlaceholderMs + 1), Amount(1000))>> >> :
        d \in { NoDate, At(PlaceholderMs), At(0) } }

\* one won CRM deal with an unparseable close date under the title of two
\* open legacy deals
UnparseablePairs ==
    { << <<HsDeal(1, <<"A">>, ClosedWonStr, BadDate, Amount(1000))>>,
         <<AcDeal(1, <<"a", " ">>, "0", NoDate, Amount(1000)),
           AcDeal(2, <<"a", " ">>, "0", NoDate, Amount(1000))>> >> }

\* getHubSpotDeals leaves this.hubspotDeals empty without includeDeals
InitDeals ==
    /\ options \in { Options(TRUE, TRUE, FALSE, FALSE), Options(TRUE, TRUE, TRUE, FALSE),
                     Options(TRUE, TRUE, FALSE, TRUE), Options(TRUE, FALSE, FALSE, FALSE) }
    /\ \E snap \in OnePair \cup ManyDeals \cup ValuePairs \cup UnparseablePairs
                   \cup LegacyOnPlaceholderDayPairs :
         /\ hubspotDeals = IF options.includeDeals THEN snap[1] ELSE <<>>
         /\ acDeals = snap[2]
    /\ hubspotContacts = <<>>
    /\ acContacts = <<>>
    /\ phase = "idle"
    /\ gaps = EmptyGaps
    /\ duplicates = EmptyDuplicates
    /\ history = <<>>
    /\ firstGaps = EmptyGaps
    /\ firstDuplicates = EmptyDuplicates
    /\ store = <<>>
    /\ UpdIdle
    /\ DupIdle
    /\ CacheIdle

NextDeals ==
    \/ AnalyzeData
    \/ AnalyzeDealsComprehensively

SpecDeals == InitDeals /\ [][NextDeals]_vars

-----------------------------------------------------------------------------
(* Claims about the deal analyses *)

\* a first, completed deal reconciliation of the snapshots as fetched
DealRunDone ==
    /\ phase = "done"
    /\ Len(history) = 1
    /\ history[1] = "analyzeDealsComprehensively"
       \/ (history[1] = "analyzeData" /\ options.includeDeals
           /\ ~options.migrationDealsOnly)

PairWonLost(pair) ==
    IsWonLost(getHubSpotDealStatus(pair[1].dealstage), getACDealStatus(pair[2].status))

DateEntriesOf(pair) ==
    { i \in 1..Len(gaps.deals.dateMismatches) :
        /\ gaps.deals.dateMismatches[i].hubspotId = pair[1].id
        /\ gaps.deals.dateMismatches[i].activeCampaignId = pair[2].id }

CloseDateIssueTypes ==
    { "missing_close_date_in_hubspot", "migration_date_needs_update",
      "close_date_mismatch", "missing_close_date_in_ac", "both_missing_close_date" }

\* C3: after a deal reconciliation, every joined pair with a won or lost side
\* has at most one dateMismatches entry, of one of the five issue types.
C3_AtMostOneCloseDateEntry ==
    DealRunDone =>
      \A p \in 1..Len(JoinedPairs(hubspotDeals, acDeals)) :
        LET pair == JoinedPairs(hubspotDeals, acDeals)[p] IN
        PairWonLost(pair) =>
          /\ Cardinality(DateEntriesOf(pair)) <= 1
          /\ \A i \in DateEntriesOf(pair) :
               gaps.deals.dateMismatches[i].issueType \in CloseDateIssueTypes

\* an unparseable close date replaced by no close date
AsAbsent(d) == IF d.kind = "invalid" THEN NoDate ELSE d

HsAsAbsent(hs) == [i \in 1..Len(hs) |-> [hs[i] EXCEPT !.closedate = AsAbsent(@)]]
AcAsAbsent(ac) == [i \in 1..Len(ac) |-> [ac[i] EXCEPT !.edate = AsAbsent(@)]]

Routing(entries) ==
    [i \in 1..Len(entries) |->
       <<entries[i].hubspotId, entries[i].activeCampaignId, entries[i].issueType>>]

\* C5: deal comparison never ends in an exception, and a snapshot with
\* unparseable close dates yields the close-date issues (pair and issue type)
\* of the same snapshot with those dates missing.
C5_UnparseableDateAsAbsent ==
    /\ phase # "failed"
    /\ DealRunDone =>
         Routing(gaps.deals.dateMismatches)
           = Routing(analyzeDealsComprehensively(HsAsAbsent(hubspotDeals),
                        AcAsAbsent(acDeals), EmptyGaps).gaps.deals.dateMismatches)

\* C9: after a deal reconciliation every joined pair whose legacy status is
\* unknown has a statusMismatches entry.
C9_UnknownStatusIsMismatch ==
    DealRunDone =>
      \A p \in 1..Len(JoinedPairs(hubspotDeals, acDeals)) :
        LET pair == JoinedPairs(hubspotDeals, acDeals)[p] IN
        getACDealStatus(pair[2].status) = "unknown" =>
          \E i \in 1..Len(gaps.deals.statusMismatches) :
            /\ gaps.deals.statusMismatches[i].hubspotId = pair[1].id
            /\ gaps.deals.statusMismatches[i].activeCampaignId = pair[2].id

-----------------------------------------------------------------------------
(* Claims about the contact analyses *)

\* C4: invoking an operation a second time on the same instance and the same
\* collections leaves the result of the first invocation.
C4_SecondInvocationSameResult ==
    (Len(history) = 2 /\ history[1] = history[2])
      => (gaps = firstGaps /\ duplicates = firstDuplicates)

\* a first, completed analyzeData with contacts included and deal focus off
ContactRunDone ==
    /\ phase = "done"
    /\ history = <<"analyzeData">>
    /\ options.includeContacts
    /\ ~options.focusDeals

\* C6: after a complete run with contacts, every legacy contact joined by
\* e-mail to a CRM contact whose first or last name differs has a
\* fieldMismatches entry with a non-empty mismatches array.
C6_NameMismatchReported ==
    ContactRunDone =>
      \A a \in 1..Len(acContacts) :
        LET email == lowerEmail(acContacts[a].email) IN
        (/\ Truthy(email)
         /\ HasKey(hubspotByEmailKeys(hubspotContacts), email)
         /\ LET hsContact == hubspotByEmail(hubspotContacts, email) IN
            \/ acContacts[a].firstName # hsContact.properties.firstname
            \/ acContacts[a].lastName # hsContact.properties.lastname)
          => \E i \in 1..Len(gaps.contacts.fieldMismatches) :
               /\ gaps.contacts.fieldMismatches[i].email = email
               /\ Len(gaps.contacts.fieldMismatches[i].mismatches) > 0

\* C7: after the contact gap analysis, a CRM contact and a legacy contact
\* whose e-mails are equal after trimming and lower-casing are in neither
\* missing list.
C7_JoinOnTrimmedLowercasedEmail ==
    (phase = "done" /\ history = <<"analyzeContactGaps">>) =>
      \A h \in 1..Len(hubspotContacts), a \in 1..Len(acContacts) :
        (/\ Truthy(normEmail(hubspotContacts[h].properties.email))
         /\ normEmail(hubspotContacts[h].properties.email) = normEmail(acContacts[a].email))
          => /\ \A i \in 1..Len(gaps.contacts.missingInHubSpot) :
                  gaps.contacts.missingInHubSpot[i].email # lowerEmail(acContacts[a].email)
             /\ \A i \in 1..Len(gaps.contacts.missingInActiveCampaign) :
                  gaps.contacts.missingInActiveCampaign[i].email
                    # lowerEmail(hubspotContacts[h].properties.email)

\* C8: the empty-field audit over 0 contacts yields one stat per tracked
\* field, each with count 0 and percentage "0.0".
C8_EmptyAuditOfNoRecords ==
    (/\ phase = "done"
     /\ Len(history) = 1
     /\ history[1] = "analyzeEmptyFields" \/ (history[1] = "analyzeData" /\ ~options.focusDeals)
     /\ hubspotContacts = <<>>)
      => /\ Len(gaps.contacts.emptyFields) = Len(ContactFields)
         /\ \A i \in 1..Len(gaps.contacts.emptyFields) :
              /\ gaps.contacts.emptyFields[i].field = ContactFields[i]
              /\ gaps.contacts.emptyFields[i].count = 0
              /\ gaps.contacts.emptyFields[i].percentage = "0.0"

-----------------------------------------------------------------------------
(* Claims about the close-date decision tree *)

\* a joined pair with a won or lost side, the CRM close date on the
\* placeholder day and a legacy close date present
PlaceholderPair(pair) ==
    /\ PairWonLost(pair)
    /\ ValidDate(pair[1].closedate)
    /\ ISODate(pair[1].closedate) = MIGRATION_DATE_analyzer
    /\ HasDate(pair[2].edate)

\* C11: after a deal reconciliation, the close-date entries of a joined
\* won/lost pair whose CRM close date is on the placeholder day and whose
\* legacy close date is present are all migration_date_needs_update with the
\* legacy date as correct date; after a first run there is exactly one.
C11_PlaceholderPrecedence ==
    phase = "done" =>
      \A p \in 1..Len(JoinedPairs(hubspotDeals, acDeals)) :
        LET pair == JoinedPairs(hubspotDeals, acDeals)[p] IN
        PlaceholderPair(pair) =>
          /\ DateEntriesOf(pair) # {}
          /\ Len(history) = 1 => Cardinality(DateEntriesOf(pair)) = 1
          /\ \A i \in DateEntriesOf(pair) :
               /\ gaps.deals.dateMismatches[i].issueType = "migration_date_needs_update"
               /\ gaps.deals.dateMismatches[i].correctCloseDate = pair[2].edate

\* a completed run over a placeholder pair whose legacy date is more than a
\* day away from the placeholder
C11_Witness ==
    /\ phase = "done"
    /\ \E p \in 1..Len(JoinedPairs(hubspotDeals, acDeals)) :
         LET pair == JoinedPairs(hubspotDeals, acDeals)[p] IN
         /\ PlaceholderPair(pair)
         /\ ValidDate(pair[2].edate)
         /\ Abs(pair[1].closedate.ms - pair[2].edate.ms) > DayMs
         /\ DateEntriesOf(pair) # {}

-----------------------------------------------------------------------------
(* Claims about status normalization *)

\* the stated rule: "won" anywhere in the stage, in any case, gives won;
\* otherwise "lost" gives lost; every other stage, a missing one included,
\* gives open
StatedCrmStatus(stage) ==
    IF stage = Undefined THEN "open"
    ELSE IF includes(toLowerCase(stage), WonStr) THEN "won"
    ELSE IF includes(toLowerCase(stage), LostStr) THEN "lost"
    ELSE "open"

\* C12: the CRM status recorded for a deal is the stated normalization of its
\* stage: won for a stage containing "won", else lost for one containing
\* "lost", else open, a missing stage included.
C12_CrmStatusNormalization ==
    \A i \in 1..Len(gaps.deals.statusMismatches) :
      gaps.deals.statusMismatches[i].hubspotStatus
        = StatedCrmStatus(gaps.deals.statusMismatches[i].hubspotStage)

-----------------------------------------------------------------------------
(* Claims about the value comparison *)

ValueEntriesOf(pair) ==
    { i \in 1..Len(gaps.deals.valueMismatches) :
        /\ gaps.deals.valueMismatches[i].hubspotId = pair[1].id
        /\ gaps.deals.valueMismatches[i].activeCampaignId = pair[2].id }

\* the amounts of a pair in cents, a missing amount being 0
CentsApart(pair) ==
    Abs((IF pair[1].amount.has THEN pair[1].amount.cents ELSE 0)
        - (IF pair[2].value.has THEN pair[2].value.cents ELSE 0))

\* C13: after a deal reconciliation a joined pair has a valueMismatches entry
\* exactly if its CRM amount and its legacy value (cents, divided by 100)
\* differ by more than 0.01, a missing amount counting as 0.
C13_ValueMismatchIffOverOneCent ==
    DealRunDone =>
      \A p \in 1..Len(JoinedPairs(hubspotDeals, acDeals)) :
        LET pair == JoinedPairs(hubspotDeals, acDeals)[p] IN
        (ValueEntriesOf(pair) # {}) <=> (CentsApart(pair) > 1)

-----------------------------------------------------------------------------
(* Specification of the two joins: SpecGaps.  Contacts vary in their        *)
(* e-mails and deals in their names; the other fields are fixed.            *)

\* three different keys on each platform make every part of a join non-empty
GapEmails   == Emails \cup { <<"b">> }
GapNames    == HsDealNames \cup { <<"c">> }
GapTitles   == AcTitles \cup { <<"c">>, Undefined }

GapHsContacts(n) ==
    { [i \in 1..n |-> HsContact(i, e[i], <<"x">>, <<"y">>, Undefined)] :
        e \in [1..n -> GapEmails] }

GapAcContacts(n) ==
    { [i \in 1..n |-> AcContact(i, e[i], <<"x">>, <<"y">>, Undefined)] :
        e \in [1..n -> GapEmails] }

GapHsDeals(n) ==
    { [i \in 1..n |-> HsDeal(i, nm[i], ClosedWonStr, At(DayMs), Amount(1000))] :
        nm \in [1..n -> GapNames] }

GapAcDeals(n) ==
    { [i \in 1..n |-> AcDeal(i, t[i], "1", At(0), Amount(1000))] :
        t \in [1..n -> GapTitles] }

InitGaps ==
    /\ options = Options(TRUE, TRUE, FALSE, FALSE)
    /\ \E n \in 0..MaxContacts : hubspotContacts \in GapHsContacts(n)
    /\ \E n \in 0..MaxContacts : acContacts \in GapAcContacts(n)
    /\ \E n \in 0..MaxDeals : hubspotDeals \in GapHsDeals(n)
    /\ \E n \in 0..MaxDeals : acDeals \in GapAcDeals(n)
    /\ \/ hubspotContacts = <<>> /\ acContacts = <<>>
       \/ hubspotDeals = <<>> /\ acDeals = <<>>
       \/ /\ Len(hubspotContacts) <= 1 /\ Len(acContacts) <= 1
          /\ Len(hubspotDeals) <= 1 /\ Len(acDeals) <= 1
    /\ phase = "idle"
    /\ gaps = EmptyGaps
    /\ duplicates = EmptyDuplicates
    /\ history = <<>>
    /\ firstGaps = EmptyGaps
    /\ firstDuplicates = EmptyDuplicates
    /\ store = <<>>
    /\ UpdIdle
    /\ DupIdle
    /\ CacheIdle

NextGaps ==
    \/ AnalyzeData
    \/ AnalyzeContactGaps
    \/ AnalyzeDealsComprehensively

SpecGaps == InitGaps /\ [][NextGaps]_vars

-----------------------------------------------------------------------------
(* Claims about the joins *)

SetOf(seq) == { seq[i] : i \in 1..Len(seq) }

Ran(op) == \E i \in 1..Len(history) : history[i] = op

ContactJoinRan ==
    /\ phase = "done"
    /\ Ran("analyzeContactGaps")
       \/ (Ran("analyzeData") /\ options.includeContacts /\ ~options.focusDeals)

DealJoinRan ==
    /\ phase = "done"
    /\ Ran("analyzeDealsComprehensively") \/ (Ran("analyzeData") /\ options.includeDeals)

\* the three parts of the key space, as reported
ContactKeysMissingInHubSpot ==
    { gaps.contacts.missingInHubSpot[i].email :
        i \in 1..Len(gaps.contacts.missingInHubSpot) }
ContactKeysMissingInActiveCampaign ==
    { gaps.contacts.missingInActiveCampaign[i].email :
        i \in 1..Len(gaps.contacts.missingInActiveCampaign) }
ContactKeysOnBoth ==
    SetOf(hubspotByEmailKeys(hubspotContacts)) \cap SetOf(acByEmailKeys(acContacts))

DealKeysMissingInHubSpot ==
    { normTitle(gaps.deals.missingInHubSpot[i].title) :
        i \in 1..Len(gaps.deals.missingInHubSpot) }
DealKeysMissingInActiveCampaign ==
    { normTitle(gaps.deals.missingInActiveCampaign[i].name) :
        i \in 1..Len(gaps.deals.missingInActiveCampaign) }
DealKeysOnBoth ==
    { hsName(JoinedPairs(hubspotDeals, acDeals)[p][1]) :
        p \in 1..Len(JoinedPairs(hubspotDeals, acDeals)) }

Partitions(a, b, c, all) ==
    /\ a \cap b = {}
    /\ a \cap c = {}
    /\ b \cap c = {}
    /\ a \cup b \cup c = all

-----------------------------------------------------------------------------
(* Specification of the duplicate analyzer: SpecDup *)

\* records of one object type, as many as make a group with a stranger
\* between its members
MaxDupRecords == 3

Phone1 == <<"5","5","5","-","0","0","0","-","1","1","1","1">>
Phone2 == <<"1"," ","5","5","5","0","0","0","1","1","1","1">>

\* e-mail, first name, last name, phone, company
DupProfiles ==
    { << <<"a">>, <<"x">>, <<"y">>, Phone1, <<"k">> >>,
      << <<"A", " ">>, <<"X">>, <<"y", " ">>, Phone2, <<"K">> >>,
      << <<"b">>, <<"x">>, <<"y">>, <<"1", "2">>, Undefined >>,
      << Undefined, Undefined, <<"z">>, Undefined, <<"k">> >> }

DupContacts(n) ==
    { [i \in 1..n |-> HsContactAt(i, f[i][1], f[i][2], f[i][3], f[i][4], f[i][5])] :
        f \in [1..n -> DupProfiles] }

\* name and domain
DupCompanyShapes ==
    { << <<"k">>, <<"d">> >>, << <<"K", " ">>, <<"e">> >>, << <<"m">>, <<"D">> >>,
      << Undefined, Undefined >> }

DupCompanies(n) ==
    { [i \in 1..n |-> HsCompany(i, f[i][1], f[i][2])] : f \in [1..n -> DupCompanyShapes] }

DupDeals(n) ==
    { [i \in 1..n |-> HsDeal(i, nm[i], ClosedWonStr, At(DayMs), Amount(1000))] :
        nm \in [1..n -> HsDealNames \cup { <<"a", " ">> }] }

DupArgvChoices ==
    { <<>>, <<"--no-contacts">>, <<"--contacts-only">>, <<"--help">> }

\* one object type varies freely, the two others are empty or hold one
\* duplicate pair
DupSnapshots ==
    LET twoContacts  == { <<>> } \cup
                        { c \in DupContacts(2) : normEmail(c[1].properties.email)
                                                   = normEmail(c[2].properties.email) }
        twoCompanies == { <<>>, <<HsCompany(1, <<"k">>, <<"d">>), HsCompany(2, <<"k">>, <<"D">>)>> }
        twoDeals     == { <<>>, <<HsDeal(1, <<"A">>, ClosedWonStr, At(DayMs), Amount(1000)),
                                 HsDeal(2, <<"a", " ">>, ClosedWonStr, At(DayMs), Amount(1000))>> }
        free(S(_))   == UNION { S(n) : n \in 0..MaxDupRecords }
    IN (free(DupContacts) \X twoCompanies \X twoDeals)
       \cup ({<<>>} \X free(DupCompanies) \X twoDeals)
       \cup ({<<>>} \X twoCompanies \X free(DupDeals))

\* the collections an object type is not included for are not fetched
InitDup ==
    /\ \E args \in DupArgvChoices : options = parse(args)
    /\ \E snap \in DupSnapshots :
         /\ hubspotContacts  = IF options.includeContacts THEN snap[1] ELSE <<>>
         /\ hubspotCompanies = IF options.includeCompanies THEN snap[2] ELSE <<>>
         /\ hubspotDeals     = IF options.includeDeals THEN snap[3] ELSE <<>>
    /\ acDeals = <<>>
    /\ acContacts = <<>>
    /\ csvData = <<>>
    /\ phase = "idle"
    /\ gaps = EmptyGaps
    /\ duplicates = EmptyDuplicates
    /\ history = <<>>
    /\ firstGaps = EmptyGaps
    /\ firstDuplicates = EmptyDuplicates
    /\ store = <<>>
    /\ UpdIdle
    /\ CacheIdle

NextDup ==
    \/ RunAnalysis
    \/ FindDuplicatesByEmail
    \/ FindDuplicatesByPhone
    \/ FindCompanyDuplicates
    \/ FindDealDuplicates

SpecDup == InitDup /\ [][NextDup]_vars

-----------------------------------------------------------------------------
(* Claims about the duplicate analyzer *)

\* the place of a record in its source collection
PositionIn(source, id) == CHOOSE k \in 1..Len(source) : source[k].id = id

\* a group of at least two members, counted, each a record of the source
\* holding the key of the group, in the order of the source
GroupOk(members, count, source, KeyOf(_), key) ==
    /\ Len(members) >= 2
    /\ count = Len(members)
    /\ \A i \in 1..Len(members) :
         \E k \in 1..Len(source) : source[k].id = members[i] /\ KeyOf(source[k]) = key
    /\ \A i, j \in 1..Len(members) :
         i < j => PositionIn(source, members[i]) < PositionIn(source, members[j])

EmailKeyOf(c)   == normEmail(c.properties.email)
CompanyKeyOf(c) == normTitle(c.properties.name)
DomainKeyOf(c)  == normTitle(c.properties.domain)

\* C15: every duplicate group of every rule has at least 2 members, a count
\* equal to its number of members, and its members in the order of the
\* source collection, each holding the key of the group; a key held by one
\* record gives no group.
C15_DuplicateGroups ==
    /\ \A i \in 1..Len(duplicates.contacts.byEmail) :
         LET g == duplicates.contacts.byEmail[i] IN
         GroupOk(g.contacts, g.count, hubspotContacts, EmailKeyOf, g.email)
    /\ \A i \in 1..Len(duplicates.contacts.byPhone) :
         LET g == duplicates.contacts.byPhone[i] IN
         GroupOk(g.contacts, g.count, hubspotContacts, phoneKey, g.phone)
    /\ \A i \in 1..Len(duplicates.contacts.byName) :
         LET g == duplicates.contacts.byName[i] IN
         GroupOk(g.contacts, g.count, hubspotContacts, fullNameKey, g.name)
    /\ \A i \in 1..Len(duplicates.contacts.byCompany) :
         LET g == duplicates.contacts.byCompany[i] IN
         GroupOk(g.contacts, g.count, hubspotContacts, companyNameKey, <<g.company, g.name>>)
    /\ \A i \in 1..Len(duplicates.companies.byName) :
         LET g == duplicates.companies.byName[i] IN
         GroupOk(g.companies, g.count, hubspotCompanies, CompanyKeyOf, g.name)
    /\ \A i \in 1..Len(duplicates.companies.byDomain) :
         LET g == duplicates.companies.byDomain[i] IN
         GroupOk(g.companies, g.count, hubspotCompanies, DomainKeyOf, g.domain)
    /\ \A i \in 1..Len(duplicates.deals.byName) :
         LET g == duplicates.deals.byName[i] IN
         GroupOk(g.deals, g.count, hubspotDeals, hsName, g.name)

\* a whole run has reported a group whose members have a stranger between
\* them in the source, and a deal group beside it
C15_Witness ==
    /\ Ran("runAnalysis")
    /\ \E i \in 1..Len(duplicates.contacts.byPhone) :
         duplicates.contacts.byPhone[i].contacts = <<1, 3>>
    /\ duplicates.deals.byName # <<>>

\* the priority the rule catalog gives to each rule
CatalogPriority(objectType, category) ==
    CASE objectType = "contacts"  /\ category = "byEmail"   -> "HIGH"
      [] objectType = "contacts"  /\ category = "byPhone"   -> "MEDIUM"
      [] objectType = "contacts"  /\ category = "byName"    -> "LOW"
      [] objectType = "contacts"  /\ category = "byCompany" -> "MEDIUM"
      [] objectType = "companies" /\ category = "byDomain"  -> "HIGH"
      [] objectType = "companies" /\ category = "byName"    -> "MEDIUM"
      [] objectType = "deals"     /\ category = "byName"    -> "MEDIUM"

\* C16: every group in the duplicate report carries the priority the rule
\* catalog gives to its rule (contact by e-mail HIGH, company by name MEDIUM,
\* deal by name MEDIUM, and so on).
C16_ReportedPriorityIsCatalogPriority ==
    \A i \in 1..Len(csvData) :
      csvData[i].priority = CatalogPriority(csvData[i].object_type, csvData[i].duplicate_type)

-----------------------------------------------------------------------------
(* The API clients: SpecCache *)

\* the page scripts of a fetch: one page, or a page with a cursor followed by
\* a last page; the last request may fail
PageResults == { <<1>> }

FailStatuses == { 402, 403, 500 }

LastResponses ==
    { Page(r, FALSE) : r \in PageResults } \cup { HttpError(s) : s \in FailStatuses }

PageScripts ==
    { <<r>> : r \in LastResponses } \cup { <<Page(<<1>>, TRUE), r>> : r \in LastResponses }

\* the object types getAllCompanies and getAllDeals fetch
HubSpotFetched == { "companies", "deals" }

AcObjectTypes == { "contacts", "deals" }

AcData == { <<1>>, <<1, 2>> }

\* getAllCompanies / getAllDeals of HubSpotAPI: the cached
\* data if the cache is valid, else the pages fetched and saved
HubSpotGetAll ==
    /\ \E objectType \in HubSpotFetched, responses \in PageScripts :
         LET call == Call("getAll", "hubspot", objectType) IN
         IF isCacheValid("hubspot", hubspotCacheOptions, cacheDir, now, objectType)
         THEN /\ result' = [call EXCEPT
                    !.value = cacheDir[getCacheFilePath("hubspot", objectType)].data,
                    !.fromCache = TRUE]
              /\ UNCHANGED cacheDir
         ELSE LET fetched == fetchPages(responses, <<>>) IN
              /\ result' = [call EXCEPT !.threw = (fetched.outcome = "threw"),
                                        !.value = fetched.value,
                                        !.responses = responses]
              /\ cacheDir' = IF fetched.outcome = "fetched"
                             THEN saveToCache("hubspot", hubspotCacheOptions, cacheDir,
                                              now, objectType, fetched.value)
                             ELSE cacheDir
    /\ UNCHANGED <<hubspotCacheOptions, acCacheOptions, now>>
    /\ UNCHANGED <<snapVars, updVars, anaVars, dupVars>>

\* ActiveCampaignAPI.saveToCache(objectType, data)
ActiveCampaignSaveToCache ==
    /\ \E objectType \in AcObjectTypes, data \in AcData :
         /\ cacheDir' = saveToCache("activecampaign", acCacheOptions, cacheDir, now,
                                    objectType, data)
         /\ result' = Call("saveToCache", "activecampaign", objectType)
    /\ UNCHANGED <<hubspotCacheOptions, acCacheOptions, now>>
    /\ UNCHANGED <<snapVars, updVars, anaVars, dupVars>>

\* HubSpotAPI.clearCache(objectType = null)
HubSpotClearCache ==
    /\ \E objectType \in ObjectTypes \cup {NoObjectType} :
         /\ cacheDir' = clearCache("hubspot", hubspotCacheOptions, cacheDir, objectType)
         /\ result' = Call("clearCache", "hubspot", objectType)
    /\ UNCHANGED <<hubspotCacheOptions, acCacheOptions, now>>
    /\ UNCHANGED <<snapVars, updVars, anaVars, dupVars>>

\* ActiveCampaignAPI.clearCache(objectType = null)
ActiveCampaignClearCache ==
    /\ \E objectType \in ObjectTypes \cup {NoObjectType} :
         /\ cacheDir' = clearCache("activecampaign", acCacheOptions, cacheDir, objectType)
         /\ result' = Call("clearCache", "activecampaign", objectType)
    /\ UNCHANGED <<hubspotCacheOptions, acCacheOptions, now>>
    /\ UNCHANGED <<snapVars, updVars, anaVars, dupVars>>

\* time passes between two client calls
Tick ==
    /\ now < StartMs + MaxTicks * TickMs
    /\ now' = now + TickMs
    /\ UNCHANGED <<cacheDir, hubspotCacheOptions, acCacheOptions, result>>
    /\ UNCHANGED <<snapVars, updVars, anaVars, dupVars>>

\* the clients as the scripts construct them: caching on, caching off
\* (--no-cache), or --flush-cache
CacheOptionChoices ==
    LET on    == CacheOptions(TRUE, FALSE)
        off   == CacheOptions(FALSE, FALSE)
        flush == CacheOptions(TRUE, TRUE)
    IN { <<on, on>>, <<off, on>>, <<flush, flush>> }

InitCache ==
    /\ cacheDir = EmptyDir
    /\ \E choice \in CacheOptionChoices :
         /\ hubspotCacheOptions = choice[1]
         /\ acCacheOptions = choice[2]
    /\ now = StartMs
    /\ result = NoCall
    /\ hubspotDeals = <<>>
    /\ acDeals = <<>>
    /\ hubspotContacts = <<>>
    /\ acContacts = <<>>
    /\ store = <<>>
    /\ UpdIdle
    /\ DupIdle
    /\ AnaIdle

NextCache ==
    \/ HubSpotGetAll
    \/ ActiveCampaignSaveToCache
    \/ HubSpotClearCache
    \/ ActiveCampaignClearCache
    \/ Tick

SpecCache == InitCache /\ [][NextCache]_vars

\* the files a client keeps in the directory
CacheFilesOf(api) ==
    { getCacheFilePath(api, t) : t \in ObjectTypes } \cup { getCacheMetadataPath(api) }

FilesUnchanged(api) ==
    \A f \in CacheFilesOf(api) :
      /\ existsSync(cacheDir', f) <=> existsSync(cacheDir, f)
      /\ existsSync(cacheDir, f) /\ existsSync(cacheDir', f) => cacheDir'[f] = cacheDir[f]

StaysValid(api, opts) ==
    \A t \in ObjectTypes :
      isCacheValid(api, opts, cacheDir, now, t) => isCacheValid(api, opts, cacheDir', now', t)

\* a step of clearCache of the client api
ClearCacheStep(api) ==
    /\ result'.op = "clearCache"
    /\ result'.api = api
    /\ now' = now

\* C17: clearing one platform's cache, with or without an object type,
\* leaves every data file and metadata file of the other platform unchanged,
\* and every valid cache entry of the other platform stays valid.
C17_CacheSeparation ==
    [][ /\ ClearCacheStep("hubspot") =>
             FilesUnchanged("activecampaign") /\ StaysValid("activecampaign", acCacheOptions)
        /\ ClearCacheStep("activecampaign") =>
             FilesUnchanged("hubspot") /\ StaysValid("hubspot", hubspotCacheOptions) ]_vars

\* a page request of the latest call failed with HTTP 402 or 403
TierFailure ==
    \E i \in 1..Len(result.responses) :
      ~result.responses[i].ok /\ result.responses[i].status \in {402, 403}

\* C18: whenever a page request of getAllCompanies or getAllDeals fails with
\* HTTP 402 or 403, the call returns the empty array and does not throw.
C18_TierLimitReturnsEmpty ==
    (result.op = "getAll" /\ result.objectType \in {"companies", "deals"} /\ TierFailure)
        => (~result.threw /\ result.value = <<>>)

\* the second page of getAllDeals fails with 402 after a first page of results
C18_Witness ==
    /\ result.op = "getAll"
    /\ result.objectType = "deals"
    /\ Len(result.responses) = 2
    /\ result.responses[1].results # <<>>
    /\ result.responses[2].status = 402
    /\ ~result.threw
    /\ result.value = <<>>

-----------------------------------------------------------------------------
(* Claims about the close-date tolerance *)

\* a joined won/lost pair with both close dates valid and the CRM date off
\* the placeholder day
DatedPair(pair) ==
    /\ IsWonLost(getHubSpotDealStatus(pair[1].dealstage), getACDealStatus(pair[2].status))
    /\ ValidDate(pair[1].closedate)
    /\ ValidDate(pair[2].edate)
    /\ ISODate(pair[1].closedate) # MIGRATION_DATE_analyzer

MsApart(pair) == Abs(pair[1].closedate.ms - pair[2].edate.ms)

\* C20: after a deal reconciliation, a joined won/lost pair with both close
\* dates present and the CRM date not the placeholder has no close-date entry
\* if the dates are exactly one day (86,400,000 ms) apart, and has
\* close_date_mismatch entries, and no other, if they are one day and 1 ms
\* apart.
C20_CloseDateToleranceBoundary ==
    phase = "done" =>
      \A p \in 1..Len(JoinedPairs(hubspotDeals, acDeals)) :
        LET pair == JoinedPairs(hubspotDeals, acDeals)[p] IN
        DatedPair(pair) =>
          /\ MsApart(pair) = DayMs => DateEntriesOf(pair) = {}
          /\ MsApart(pair) = DayMs + 1 =>
               /\ DateEntriesOf(pair) # {}
               /\ \A i \in DateEntriesOf(pair) :
                    gaps.deals.dateMismatches[i].issueType = "close_date_mismatch"

\* a completed run over a pair one day and 1 ms apart, reported
C20_Witness ==
    /\ phase = "done"
    /\ \E p \in 1..Len(JoinedPairs(hubspotDeals, acDeals)) :
         LET pair == JoinedPairs(hubspotDeals, acDeals)[p] IN
         /\ DatedPair(pair)
         /\ MsApart(pair) = DayMs + 1
         /\ DateEntriesOf(pair) # {}

\* a completed run over a pair exactly one day apart, not reported
C20_WitnessExact ==
    /\ phase = "done"
    /\ \E p \in 1..Len(JoinedPairs(hubspotDeals, acDeals)) :
         LET pair == JoinedPairs(hubspotDeals, acDeals)[p] IN
         /\ DatedPair(pair)
         /\ MsApart(pair) = DayMs
         /\ DateEntriesOf(pair) = {}

-----------------------------------------------------------------------------
(* scripts/update-hubspot-close-dates.js, the updater that reads the gap   *)
(* analysis file: SpecGapFile.  It selects the dateMismatches entries the  *)
(* analyzer flagged isMigrationDate, and re-verifies each deal against its *)
(* own MIGRATION_DATE before it writes.                                    *)

\* this.MIGRATION_DATE = '2025-07-15', in days since 2025-07-14
MIGRATION_DATE_gapFileUpdater == 1

\* loadGapAnalysisData: the parsed file, or null if it has no
\* deals.dateMismatches at its top level.  generateGapReport writes the gaps
\* under the key "gaps" of the report; a file holding the gaps object itself
\* has them at the top level.
GapFileShapes == { "report", "gaps" }

loadGapAnalysisData(shape, g) ==
    IF shape = "gaps" THEN [ok |-> TRUE, deals |-> g.deals]
    ELSE [ok |-> FALSE, deals |-> EmptyGaps.deals]

GapFileEntry(mismatch) ==
    [hubspotId |-> mismatch.hubspotId, dealName |-> mismatch.dealName,
     currentCloseDate |-> mismatch.hubspotCloseDate,
     newCloseDate |-> mismatch.activeCampaignCloseDate,
     activeCampaignId |-> mismatch.activeCampaignId]

RECURSIVE identifyMigrationDealsFromGapData(_)
identifyMigrationDealsFromGapData(dateMismatches) ==
    IF dateMismatches = <<>> THEN <<>>
    ELSE LET rest == identifyMigrationDealsFromGapData(
                         SubSeq(dateMismatches, 1, Len(dateMismatches) - 1))
             mismatch == dateMismatches[Len(dateMismatches)] IN
         IF mismatch.isMigrationDate /\ HasDate(mismatch.activeCampaignCloseDate)
         THEN Append(rest, GapFileEntry(mismatch)) ELSE rest

\* What processDeal does with getDeal's result, up to the write:
\*   "error" | "skipped" | "updated" (dry run) | "write" (updateDeal is called)
GapFileProcessDealDecision(dry, currentDeal) ==
    IF ~currentDeal.ok THEN "error"
    ELSE LET currentCloseDate == currentDeal.closedate IN
         IF HasDate(currentCloseDate) /\ ~ValidDate(currentCloseDate)
         THEN "error"                            \* RangeError, caught
         ELSE IF ~(HasDate(currentCloseDate)
                   /\ ISODate(currentCloseDate) = MIGRATION_DATE_gapFileUpdater)
         THEN "skipped"
         ELSE IF dry THEN "updated"
         ELSE "write"

\* updateCloseDates(jsonFilePath, dryRun) up to the loop, on the file of a
\* completed analysis
GapFileUpdateCloseDates ==
    /\ phase = "done"
    /\ pc = "start"
    /\ \E dry \in BOOLEAN, shape \in GapFileShapes :
         LET gapData == loadGapAnalysisData(shape, gaps) IN
         /\ dryRun' = dry
         /\ migrationDeals' = IF gapData.ok
                              THEN identifyMigrationDealsFromGapData(gapData.deals.dateMismatches)
                              ELSE <<>>
         /\ pc' = IF migrationDeals' = <<>> THEN "done" ELSE "process"
    /\ UNCHANGED <<argv, viaMain, idx, store, current, updatedCount, skippedCount,
                   errorCount, lookups, writes, counted, edits>>
    /\ UNCHANGED <<snapVars, anaVars, dupVars, cacheVars>>

\* processDeal(deal): getDeal answers with the deal as stored or fails; after
\* the re-verification updateDeal is applied and answered, or fails
GapFileProcessDeal ==
    /\ pc = "process"
    /\ LET deal == migrationDeals[idx]
           newCloseDate == newCloseDateValue(deal.newCloseDate) IN
       \E currentDeal \in {NullDeal, CurrentDeal(store[deal.hubspotId])},
          updateResult \in BOOLEAN :
         LET decision == GapFileProcessDealDecision(dryRun, currentDeal)
             written  == decision = "write" /\ updateResult
             failed   == decision = "error" \/ (decision = "write" /\ ~updateResult) IN
         /\ decision # "write" => updateResult
         /\ lookups' = Append(lookups, [call |-> idx, id |-> deal.hubspotId,
                                        deal |-> currentDeal])
         /\ current' = currentDeal
         /\ writes' = IF decision = "write"
                      THEN Append(writes, [call |-> idx, id |-> deal.hubspotId,
                                           closedate |-> newCloseDate,
                                           before |-> store[deal.hubspotId],
                                           applied |-> updateResult])
                      ELSE writes
         /\ store' = IF written THEN [store EXCEPT ![deal.hubspotId] = newCloseDate]
                     ELSE store
         /\ errorCount'   = IF failed THEN errorCount + 1 ELSE errorCount
         /\ skippedCount' = IF decision = "skipped" THEN skippedCount + 1 ELSE skippedCount
         /\ updatedCount' = IF decision = "updated" \/ written
                            THEN updatedCount + 1 ELSE updatedCount
         /\ counted' = IF decision = "updated" \/ written
                       THEN counted \cup {deal.hubspotId} ELSE counted
    /\ pc' = NextCandidate
    /\ idx' = idx + 1
    /\ UNCHANGED <<argv, viaMain, dryRun, migrationDeals, edits>>
    /\ UNCHANGED <<snapVars, anaVars, dupVars, cacheVars>>

GapFileStages   == { ClosedWonStr, ClosedLostStr, QualifiedStr }
GapFileStatuses == { "0", "1", "2" }

GapFilePairs ==
    { << <<HsDeal(1, <<"A">>, st, d, Amount(1000))>>,
         <<AcDeal(1, <<"a", " ">>, s, e, Amount(1000))>> >> :
        st \in GapFileStages, d \in HsDates, s \in GapFileStatuses, e \in AcDates }

InitGapFile ==
    /\ options = Options(TRUE, TRUE, FALSE, FALSE)
    /\ \E snap \in GapFilePairs \cup ManyDeals :
         /\ hubspotDeals = snap[1]
         /\ acDeals = snap[2]
    /\ hubspotContacts = <<>>
    /\ acContacts = <<>>
    /\ phase = "idle"
    /\ gaps = EmptyGaps
    /\ duplicates = EmptyDuplicates
    /\ history = <<>>
    /\ firstGaps = EmptyGaps
    /\ firstDuplicates = EmptyDuplicates
    /\ store = [i \in 1..Len(hubspotDeals) |-> hubspotDeals[i].closedate]
    /\ UpdIdle
    /\ DupIdle
    /\ CacheIdle

NextGapFile ==
    \/ AnalyzeDealsComprehensively
    \/ GapFileUpdateCloseDates
    \/ GapFileProcessDeal

SpecGapFile == InitGapFile /\ [][NextGapFile]_vars

\* the analyzer's test of a CRM close date for the placeholder
AnalyzerPlaceholder(closeDate) ==
    ValidDate(closeDate) /\ ISODate(closeDate) = MIGRATION_DATE_analyzer

\* C19: one placeholder date is used by every component: a deal whose CRM
\* close date the gap analyzer classifies as the placeholder is classified
\* as placeholder by the selection and by the re-verification of the updater
\* that works on the fetched snapshots and of the updater that reads the gap
\* analysis file, so no such deal is skipped as changed.
C19_OnePlaceholderDate ==
    /\ \A i \in 1..Len(hubspotDeals) :
         AnalyzerPlaceholder(hubspotDeals[i].closedate) =>
           /\ ISODate(hubspotDeals[i].closedate) = MIGRATION_DATE
           /\ ProcessDealDecision(TRUE, CurrentDeal(hubspotDeals[i].closedate)) # "skipped"
    /\ \A k \in 1..Len(lookups) :
         (lookups[k].deal.ok /\ AnalyzerPlaceholder(lookups[k].deal.closedate)) =>
           GapFileProcessDealDecision(dryRun, lookups[k].deal) # "skipped"

-----------------------------------------------------------------------------
(* Claims about the correct close date *)

DealById(deals, id) == CHOOSE d \in { deals[k] : k \in 1..Len(deals) } : d.id = id

HasDealWithId(deals, id) == \E k \in 1..Len(deals) : deals[k].id = id

\* C21: in every dateMismatches entry the correct close date is the legacy
\* close date of the entry's pair, or the CRM deal's own close date (only in
\* a missing_close_date_in_ac entry), or null (only in a
\* both_missing_close_date entry).
C21_CorrectDateNeverInvented ==
    \A i \in 1..Len(gaps.deals.dateMismatches) :
      LET entry == gaps.deals.dateMismatches[i] IN
      \* a later filtered run may have dropped the CRM deal from this.hubspotDeals
      HasDealWithId(hubspotDeals, entry.hubspotId) =>
      /\ HasDealWithId(acDeals, entry.activeCampaignId)
      /\ LET hsDeal == DealById(hubspotDeals, entry.hubspotId)
             acDeal == DealById(acDeals, entry.activeCampaignId) IN
         \/ HasDate(acDeal.edate) /\ entry.correctCloseDate = acDeal.edate
         \/ /\ entry.issueType = "missing_close_date_in_ac"
            /\ entry.correctCloseDate = hsDeal.closedate
         \/ /\ entry.issueType = "both_missing_close_date"
            /\ entry.correctCloseDate = NoDate

\* entries of all three kinds of correct date: from the legacy deal by the
\* pair comparison and by analyzeCloseDateIssues, from the CRM deal, or null
C21_Witness ==
    /\ phase = "done"
    /\ \E i \in 1..Len(gaps.deals.dateMismatches) :
         /\ gaps.deals.dateMismatches[i].reportedBy = "analyzeCloseDateIssues"
         /\ gaps.deals.dateMismatches[i].activeCampaignId # 1
         /\ ValidDate(gaps.deals.dateMismatches[i].correctCloseDate)

-----------------------------------------------------------------------------
(* Claims about the deal join *)

\* a first deal reconciliation was started on the snapshots (it completed or
\* an exception ended it)
DealRunAttempted ==
    /\ Len(history) = 1
    /\ history[1] = "analyzeDealsComprehensively"
       \/ (history[1] = "analyzeData" /\ options.includeDeals)

StatusEntriesOf(pair) ==
    { i \in 1..Len(gaps.deals.statusMismatches) :
        /\ gaps.deals.statusMismatches[i].hubspotId = pair[1].id
        /\ gaps.deals.statusMismatches[i].activeCampaignId = pair[2].id }

\* the positions of the joined pairs whose statuses differ
StatusMismatchPairs ==
    { p \in 1..Len(JoinedPairs(hubspotDeals, acDeals)) :
        statusMismatch(JoinedPairs(hubspotDeals, acDeals)[p][1],
                       JoinedPairs(hubspotDeals, acDeals)[p][2]) }

\* C22: the deal join is a cross-product: every CRM deal is compared with
\* every legacy deal of the same normalized title, so after one deal
\* reconciliation each of the m x n pairs of a title whose statuses differ has
\* exactly one statusMismatches entry, each other pair has none, and there is
\* no entry besides these.
C22_DealJoinIsCrossProduct ==
    DealRunAttempted =>
      /\ \A p \in 1..Len(JoinedPairs(hubspotDeals, acDeals)) :
           Cardinality(StatusEntriesOf(JoinedPairs(hubspotDeals, acDeals)[p]))
             = IF p \in StatusMismatchPairs THEN 1 ELSE 0
      /\ Len(gaps.deals.statusMismatches) = Cardinality(StatusMismatchPairs)

\* the same for the reconciliations that ran to their end
C22_CrossProductOfCompletedRun ==
    (DealRunAttempted /\ phase = "done") =>
      /\ \A p \in 1..Len(JoinedPairs(hubspotDeals, acDeals)) :
           Cardinality(StatusEntriesOf(JoinedPairs(hubspotDeals, acDeals)[p]))
             = IF p \in StatusMismatchPairs THEN 1 ELSE 0
      /\ Len(gaps.deals.statusMismatches) = Cardinality(StatusMismatchPairs)

\* two CRM deals and two legacy deals under one title, all four pairs reported
C22_FourPairs ==
    /\ DealRunAttempted
    /\ phase = "done"
    /\ Len(JoinedPairs(hubspotDeals, acDeals)) = 4
    /\ Cardinality(StatusMismatchPairs) = 4
    /\ Len(gaps.deals.statusMismatches) = 4

-----------------------------------------------------------------------------
(* Claims about the migration issues *)

ClosedStage(stage) == stage = ClosedWonStr \/ stage = ClosedLostStr

ActiveStageName(stage) ==
    stage # Undefined /\ (includes(stage, AppointmentStr) \/ includes(stage, QualifiedStr))

\* the four stated checks: (a) closed won/lost without close date, (b) closed
\* won without amount or with amount zero, (c) a stage other than closed
\* won/lost and a close date, (d) "appointment" or "qualified" in the stage name and no close
\* date
TriggeredChecks(deal) ==
    (IF ClosedStage(deal.dealstage) /\ ~HasDate(deal.closedate)
     THEN {IssueClosedMissingDate} ELSE {})
    \cup (IF deal.dealstage = ClosedWonStr /\ (~deal.amount.has \/ deal.amount.cents = 0)
          THEN {IssueWonNoAmount} ELSE {})
    \cup (IF /\ deal.dealstage # Undefined
              /\ ~ClosedStage(deal.dealstage)
              /\ HasDate(deal.closedate)
          THEN {IssueOpenHasDate} ELSE {})
    \cup (IF ActiveStageName(deal.dealstage) /\ ~HasDate(deal.closedate)
          THEN {IssueActiveNoDate} ELSE {})

MigrationEntriesOf(deal) ==
    { i \in 1..Len(gaps.deals.migrationIssues) :
        gaps.deals.migrationIssues[i].hubspotId = deal.id }

IssuesOf(i) ==
    { gaps.deals.migrationIssues[i].issues[k] :
        k \in 1..Len(gaps.deals.migrationIssues[i].issues) }

OneEntryWithAllChecks(deal) ==
    /\ Cardinality(MigrationEntriesOf(deal)) = IF TriggeredChecks(deal) # {} THEN 1 ELSE 0
    /\ \A i \in MigrationEntriesOf(deal) : IssuesOf(i) = TriggeredChecks(deal)

-----------------------------------------------------------------------------
(* Claims about the updater running next to other editors *)

\* C24: no applied updateDeal write replaces a close date that is not on the
\* placeholder day at the moment the write is applied; an edit that lands
\* between the getDeal read and the updateDeal write is not overwritten.
C24_NoWriteOverExternalEdit ==
    \A w \in 1..Len(writes) :
      writes[w].applied => OnPlaceholderDay(writes[w].before)

\* without an external edit the close date replaced is the one getDeal showed
C24_WriteReplacesReadDateWithoutEdits ==
    edits = 0 =>
      \A w \in 1..Len(writes) :
        writes[w].applied => OnPlaceholderDay(writes[w].before)

-----------------------------------------------------------------------------
(* Claims relating the updater's selection to the analyzer's report *)

\* what updateCloseDates would select on the snapshots the analyzer holds
SelectedForUpdate ==
    IF identifyThrows(hubspotDeals) THEN <<>>
    ELSE identifyMigrationDeals(hubspotDeals, acDeals)

NeedsUpdateEntries(id) ==
    { i \in 1..Len(gaps.deals.dateMismatches) :
        /\ gaps.deals.dateMismatches[i].issueType = "migration_date_needs_update"
        /\ gaps.deals.dateMismatches[i].hubspotId = id }

UpdaterAgreesWithAnalyzer ==
    /\ \A k \in 1..Len(hubspotDeals) :
         (\E m \in 1..Len(SelectedForUpdate) :
            SelectedForUpdate[m].hubspotId = hubspotDeals[k].id)
         <=> NeedsUpdateEntries(hubspotDeals[k].id) # {}
    /\ \A m \in 1..Len(SelectedForUpdate) :
         \A i \in NeedsUpdateEntries(SelectedForUpdate[m].hubspotId) :
           newCloseDateValue(SelectedForUpdate[m].newCloseDate)
             = newCloseDateValue(gaps.deals.dateMismatches[i].correctCloseDate)

\* C25: on the same snapshots the updater selects a CRM deal exactly when the
\* analyzer reports a migration_date_needs_update entry for it, and the date
\* it would write is that entry's correct close date, also when several
\* legacy deals share the deal's title.
C25_UpdaterAgreesWithAnalyzer ==
    DealRunDone => UpdaterAgreesWithAnalyzer

TitleSharedByLegacyDeals ==
    \E i, j \in 1..Len(acDeals) :
      /\ i # j
      /\ Truthy(normTitle(acDeals[i].title))
      /\ normTitle(acDeals[i].title) = normTitle(acDeals[j].title)

\* the agreement when no two legacy deals share a title
C25_AgreementOnUniqueTitles ==
    (DealRunDone /\ ~TitleSharedByLegacyDeals) => UpdaterAgreesWithAnalyzer

\* a deal selected by the updater and reported by the analyzer
C25_SelectedAndReported ==
    /\ DealRunDone
    /\ ~TitleSharedByLegacyDeals
    /\ SelectedForUpdate # <<>>
    /\ NeedsUpdateEntries(SelectedForUpdate[1].hubspotId) # {}

-----------------------------------------------------------------------------
(* Claims about the updater's counters *)

\* the processDeal calls that have returned
ProcessDealCallsReturned == IF pc \in {"process", "write", "done"} THEN idx - 1 ELSE 0

SucceededUpdateDealCalls == { w \in 1..Len(writes) : writes[w].applied }

\* C26: each processDeal call increments exactly one of updatedCount,
\* skippedCount and errorCount; when updateCloseDates finishes their sum is the
\* number of candidate deals, and in a non-dry run updatedCount is the number
\* of updateDeal calls that succeeded.
C26_UpdaterAccounting ==
    /\ updatedCount + skippedCount + errorCount = ProcessDealCallsReturned
    /\ pc = "done" => updatedCount + skippedCount + errorCount = Len(migrationDeals)
    /\ ~dryRun => updatedCount = Cardinality(SucceededUpdateDealCalls)

\* a finished non-dry run with one deal updated and one updateDeal call failed
C26_Witness ==
    /\ pc = "done"
    /\ ~dryRun
    /\ Len(migrationDeals) = 2
    /\ updatedCount = 1
    /\ errorCount = 1
    /\ Len(writes) = 2

-----------------------------------------------------------------------------
(* Claims about the migration-deals-only filter *)

\* analyzeData as the first operation on the fetched snapshots
FirstAnalyzeDataStep == history = <<>> /\ history' = <<"analyzeData">>

\* a CRM deal of the snapshot the step starts from has the normalized title
InSnapshotBeforeStep(title) ==
    \E k \in 1..Len(hubspotDeals) :
      Truthy(hsName(hubspotDeals[k])) /\ hsName(hubspotDeals[k]) = normTitle(title)

NoExistingDealReportedMissing ==
    \A i \in 1..Len(gaps'.deals.missingInHubSpot) :
      ~InSnapshotBeforeStep(gaps'.deals.missingInHubSpot[i].title)

\* C27: with the migration-deals-only filter a legacy deal is reported missing
\* in the CRM only if no CRM deal of the fetched snapshot, before filtering,
\* shares its normalized title.
C27_FilterCreatesNoGap ==
    [][ (FirstAnalyzeDataStep /\ options.migrationDealsOnly)
          => NoExistingDealReportedMissing ]_vars

\* the same without the filter
C27_NoGapForExistingDealUnfiltered ==
    [][ (FirstAnalyzeDataStep /\ ~options.migrationDealsOnly)
          => NoExistingDealReportedMissing ]_vars

-----------------------------------------------------------------------------
(* Claims relating the migration checks to the status normalizer *)

RaisedFor(deal, issue) == \E i \in MigrationEntriesOf(deal) : issue \in IssuesOf(i)

NormalizedStatus(deal) == getHubSpotDealStatus(deal.dealstage)

OpenIssueOnlyForOpenDeals ==
    \A k \in 1..Len(hubspotDeals) :
      RaisedFor(hubspotDeals[k], IssueOpenHasDate)
        => NormalizedStatus(hubspotDeals[k]) = "open"

MissingDateIssueForEveryClosedDeal ==
    \A k \in 1..Len(hubspotDeals) :
      (NormalizedStatus(hubspotDeals[k]) \in {"won", "lost"}
         /\ ~HasDate(hubspotDeals[k].closedate))
        => RaisedFor(hubspotDeals[k], IssueClosedMissingDate)

\* C28: 'Open deal has close date' is raised only for deals that
\* getHubSpotDealStatus normalizes to open, and 'Won/Lost deal missing close
\* date' is raised for every deal it normalizes to won or lost that has no
\* close date.
C28_ChecksFollowNormalizer ==
    DealRunDone => (OpenIssueOnlyForOpenDeals /\ MissingDateIssueForEveryClosedDeal)

\* the same for the deals whose stage is exactly 'closedwon' or 'closedlost'
\* or is normalized to open
C28_ChecksFollowNormalizerOnExactStages ==
    DealRunDone =>
      \A k \in 1..Len(hubspotDeals) :
        LET deal == hubspotDeals[k] IN
        (ClosedStage(deal.dealstage) \/ NormalizedStatus(deal) = "open") =>
          /\ RaisedFor(deal, IssueOpenHasDate) => NormalizedStatus(deal) = "open"
          /\ (NormalizedStatus(deal) \in {"won", "lost"} /\ ~HasDate(deal.closedate))
               => RaisedFor(deal, IssueClosedMissingDate)

-----------------------------------------------------------------------------
(* Claims about the contact field mismatches *)

FieldMismatchPassDone ==
    phase = "done" /\ history = <<"analyzeFieldMismatches">>

OneEntryPerEmail ==
    \A i, j \in 1..Len(gaps.contacts.fieldMismatches) :
      gaps.contacts.fieldMismatches[i].email = gaps.contacts.fieldMismatches[j].email
        => i = j

\* C29: each email key present on both platforms contributes at most one
\* entry to fieldMismatches per analysis pass, also when several contacts on
\* one platform share that email.
C29_OneFieldMismatchEntryPerEmail ==
    FieldMismatchPassDone => OneEntryPerEmail

LegacyEmailShared ==
    \E i, j \in 1..Len(acContacts) :
      /\ i # j
      /\ Truthy(lowerEmail(acContacts[i].email))
      /\ lowerEmail(acContacts[i].email) = lowerEmail(acContacts[j].email)

\* the same when no two legacy contacts share an email
C29_OneEntryPerEmailOnUniqueLegacyEmails ==
    (FieldMismatchPassDone /\ ~LegacyEmailShared) => OneEntryPerEmail

-----------------------------------------------------------------------------
(* Claims about the placeholder date as correct close date *)

NoPlaceholderFromHubSpot ==
    \A i \in 1..Len(gaps.deals.dateMismatches) :
      ~(/\ gaps.deals.dateMismatches[i].issueType = "missing_close_date_in_ac"
        /\ OnPlaceholderDay(gaps.deals.dateMismatches[i].correctCloseDate))

\* C30 as stated: no pair is reported as missing_close_date_in_ac with the
\* placeholder as correct date, and the placeholder date is the
\* correctCloseDate of no dateMismatches entry.
C30_PlaceholderNeverCorrectDate ==
    /\ NoPlaceholderFromHubSpot
    /\ \A i \in 1..Len(gaps.deals.dateMismatches) :
         ~OnPlaceholderDay(gaps.deals.dateMismatches[i].correctCloseDate)

\* C30: no pair is reported as missing_close_date_in_ac with the placeholder
\* as correct date, and a correctCloseDate on the placeholder day is the
\* close date of the entry's legacy deal.
C30_PlaceholderOnlyAsLegacyDate ==
    /\ NoPlaceholderFromHubSpot
    /\ \A i \in 1..Len(gaps.deals.dateMismatches) :
         LET entry == gaps.deals.dateMismatches[i] IN
         OnPlaceholderDay(entry.correctCloseDate) =>
           /\ HasDealWithId(acDeals, entry.activeCampaignId)
           /\ DealById(acDeals, entry.activeCampaignId).edate = entry.correctCloseDate

\* a joined won pair with the CRM close date on the placeholder day and no
\* legacy close date, after a completed reconciliation with no entry for it
C30_Witness ==
    /\ DealRunDone
    /\ \E k \in 1..Len(hubspotDeals), a \in 1..Len(acDeals) :
         LET pair == <<hubspotDeals[k], acDeals[a]>> IN
         /\ Truthy(hsName(pair[1]))
         /\ hsName(pair[1]) = acTitle(pair[2])
         /\ PairWonLost(pair)
         /\ OnPlaceholderDay(pair[1].closedate)
         /\ ~HasDate(pair[2].edate)
         /\ DateEntriesOf(pair) = {}

=============================================================================
